---- MODULE Spec2Model ----
(***************************************************************************)
(* Model of platform_connectors: the resilient request executor           *)
(* (HttpClient.get/post/put under tenacity's @retry), the offset-parallel  *)
(* pagination of JiraClient._get_paginated, the page-parallel pagination   *)
(* of GitlabClient._get_paginated, the class-level rate limiter that       *)
(* guards GitlabClient's operations, the scoped-usage blocks of HttpClient *)
(* (__aenter__/__aexit__) with the session an attempt runs on, and the     *)
(* link-sequential traversal of ConfluenceClient.get_all_pages_in_space.   *)
(*                                                                         *)
(* asyncio is cooperative: a coroutine runs without interruption from one  *)
(* suspension point (a network wait, a retry sleep, a token wait) to the   *)
(* next.  Every action below is one such uninterrupted stretch.            *)
(***************************************************************************)
EXTENDS Integers, Sequences, FiniteSets, TLC

(* ------------------------------ bounds -------------------------------- *)
\* largest page size (maxResults / per_page) tried besides the facades' 100
MaxPageSize == 2
\* largest upstream collection tried besides the 250-item example
MaxTotal == 3
\* number of concurrent direct get/post/put calls on one HttpClient
MaxDirect == 2
\* number of scoped-usage blocks entered on one HttpClient
MaxBlocks == 2
\* number of concurrent calls of GitlabClient._get_paginated at the limiter
MaxGuarded == 2
\* longest window followed after the bucket was full, in token periods
MaxWindow == 2
\* largest version number a Confluence page starts with
MaxVersion == 2
\* longest base address given to a constructor, in characters
MaxUrlLen == 5
\* number of tickets given to JiraClient.changelogs_from_tickets
MaxTickets == 2

(* ------------------------- program constants -------------------------- *)
\* stop=stop_after_attempt(5)
MAX_ATTEMPTS == 5
\* GitlabClient.LIMIT_REQUESTS_CAPACITY
LIMIT_REQUESTS_CAPACITY == 1000
\* GitlabClient.LIMIT_REQUESTS_RATE, tokens per second
LIMIT_REQUESTS_RATE == 30
\* "maxResults": 100 / "per_page": 100 in the facades' queries
FACADE_PAGE_SIZE == 100

VARIABLES
    scenario,        \* what the program drives: "jira", "gitlab", "confluence", "direct", "scoped", "shared",
                     \* "limiter", "waiters", "upsert", "upserts", "construct",
                     \* "changelogs"
    upstream,        \* the upstream collection: [total |-> number of items], and how it answers
    query,           \* the dict the name `query` of the fetch under way is bound to
    calls,           \* one record per HttpClient.get/post/put call (a tenacity-wrapped coroutine)
    fetch,           \* the fetch coroutine (_get_paginated, get_all_pages_in_space): position, locals
    tokens,          \* GitlabClient.limit_requests: tokens available, per bucket key
    tokensConsumed,  \* history: tokens taken by the paginated fetch under way
    session,         \* HttpClient._session: 0 for None, else the session's identity
    sessions,        \* the sessions __aenter__ created, by identity: "open" or "closed"
    blocks,          \* the scoped-usage blocks of the client: how many are entered, exiting
    guarded,         \* the calls of rate-limited GitlabClient operations
    window,          \* history: guarded starts and token periods since the bucket was full
    client           \* the client object: not constructed yet, built, or its constructor raised

vars == <<scenario, upstream, query, calls, fetch, tokens, tokensConsumed,
          session, sessions, blocks, guarded, window, client>>

(* ------------------------------ helpers ------------------------------- *)
Min(a, b) == IF a < b THEN a ELSE b

Max(a, b) == IF a > b THEN a ELSE b

\* the items a .. b of the upstream collection, in upstream order
Items(a, b) == IF b < a THEN <<>> ELSE [i \in 1..(b - a + 1) |-> a + i - 1]

\* math.ceil(a / b) for a >= 0, b > 0
Ceil(a, b) == (a + b - 1) \div b

\* [item for sublist in results for item in sublist]
RECURSIVE Flatten(_)
Flatten(results) ==
    IF results = <<>> THEN <<>>
    ELSE Head(results) \o Flatten(Tail(results))

(* ------------------------- decimal numerals --------------------------- *)
\* the value of each decimal digit character
DigitValue ==
    ("0" :> 0) @@ ("1" :> 1) @@ ("2" :> 2) @@ ("3" :> 3) @@ ("4" :> 4)
      @@ ("5" :> 5) @@ ("6" :> 6) @@ ("7" :> 7) @@ ("8" :> 8) @@ ("9" :> 9)

DigitChar == <<"0", "1", "2", "3", "4", "5", "6", "7", "8", "9">>

\* the text of a header value that carries the number n >= 0
RECURSIVE Decimal(_)
Decimal(n) ==
    IF n < 10 THEN <<DigitChar[n + 1]>>
    ELSE Append(Decimal(n \div 10), DigitChar[(n % 10) + 1])

\* int(text) accepts the text: it is a non-empty run of decimal digits
\* (signs, blanks and underscores, which int() also accepts, are not tried)
IsNumeral(text) ==
    /\ Len(text) > 0
    /\ \A i \in 1..Len(text) : text[i] \in DOMAIN DigitValue

\* the number int(text) returns for a run of decimal digits
RECURSIVE IntOf(_)
IntOf(text) ==
    IF text = <<>> THEN 0
    ELSE 10 * IntOf(SubSeq(text, 1, Len(text) - 1)) + DigitValue[text[Len(text)]]

(* --------------------------- urllib.parse ----------------------------- *)
\* The characters base addresses are made of here: a letter, and the
\* delimiters that urlparse looks for in the scheme and in the netloc.
UrlChars == {"a", ":", "/", "@"}

\* scheme_chars, as far as UrlChars goes
SchemeChars == {"a"}

\* text.find(ch): the first position of ch in text, 0 when there is none
Find(text, ch) ==
    IF \E i \in 1..Len(text) : text[i] = ch
    THEN CHOOSE i \in 1..Len(text) :
            text[i] = ch /\ \A j \in 1..(i - 1) : text[j] # ch
    ELSE 0

\* urlsplit: the text before the first ":" is the scheme when it starts
\* with a letter and holds scheme characters only
HasScheme(url) ==
    LET i == Find(url, ":")
    IN  i > 1 /\ \A k \in 1..(i - 1) : url[k] \in SchemeChars

UrlScheme(url) ==
    IF HasScheme(url) THEN SubSeq(url, 1, Find(url, ":") - 1) ELSE <<>>

\* what urlsplit goes on with once the scheme and its ":" are taken off
UrlRest(url) ==
    IF HasScheme(url) THEN SubSeq(url, Find(url, ":") + 1, Len(url)) ELSE url

\* urlsplit: when the rest starts with "//" the netloc is what follows, up
\* to the next "/" ("?" and "#" are not among UrlChars)
UrlNetloc(url) ==
    LET rest  == UrlRest(url)
        after == SubSeq(rest, 3, Len(rest))
        delim == Find(after, "/")
    IN  IF Len(rest) >= 2 /\ rest[1] = "/" /\ rest[2] = "/"
        THEN IF delim = 0 THEN after ELSE SubSeq(after, 1, delim - 1)
        ELSE <<>>

\* text.rstrip("/")
RECURSIVE RStripSlash(_)
RStripSlash(text) ==
    IF text # <<>> /\ text[Len(text)] = "/"
    THEN RStripSlash(SubSeq(text, 1, Len(text) - 1))
    ELSE text

(* --------------------------- constructors ----------------------------- *)
NoClient == [state |-> "none"]

\* the constructor raised ValueError: there is no client
Raised(kind, args) ==
    [state |-> "raised", kind |-> kind, args |-> args,
     error |-> [type |-> "ValueError", cause |-> "none"]]

\* HttpClient.__init__(http_url, ...), reached from the constructor of a
\* client of the given kind that was called with args
HttpClientInit(kind, args, http_url) ==
    IF http_url = <<>> THEN Raised(kind, args)
    ELSE IF UrlScheme(http_url) = <<>> \/ UrlNetloc(http_url) = <<>>
    THEN Raised(kind, args)
    ELSE [state |-> "built", kind |-> kind, args |-> args, url |-> http_url]

\* what each service client appends to its base address: "/rest/api/2/",
\* "/api/v4/" (a path in slashes) and "/"
ServiceSuffix(kind) ==
    IF kind = "confluence" THEN <<"/">> ELSE <<"/", "a", "/">>

\* variant: only the first credential is looked at
MissingCredential_FirstOnly(kind, args) == args.username = <<>>

\* `if not gitlab_token`, `if not jira_username`, `if not jira_password`,
\* and the same for Confluence; the token of GitLab is held in username
MissingCredential(kind, args) ==
    \/ args.username = <<>>
    \/ kind # "gitlab" /\ args.password = <<>>

\* __init__ of JiraClient, GitlabClient and ConfluenceClient
ServiceInit(kind, args) ==
    IF args.url = <<>> THEN Raised(kind, args)
    ELSE IF MissingCredential(kind, args) THEN Raised(kind, args)
    ELSE HttpClientInit(kind, args,
                        RStripSlash(args.url) \o ServiceSuffix(kind))

ClientKinds == {"http", "jira", "gitlab", "confluence"}

\* the base addresses tried
Urls == UNION {[1..n -> UrlChars] : n \in 0..MaxUrlLen}

\* the credentials tried: empty and not
Credentials == {<<>>, <<"a">>}

\* the arguments a constructor of the given kind takes
ArgsOf(kind) ==
    CASE kind = "http" ->
           {[url |-> u, username |-> <<>>, password |-> <<>>] : u \in Urls}
      [] kind = "gitlab" ->
           {[url |-> u, username |-> t, password |-> <<>>] :
               u \in Urls, t \in Credentials}
      [] OTHER ->
           {[url |-> u, username |-> n, password |-> w] :
               u \in Urls, n \in Credentials, w \in Credentials}

\* the program constructs a client of the given kind, with some arguments
Construct(kind) ==
    /\ scenario = "construct"
    /\ client.state = "none"
    /\ \E args \in ArgsOf(kind) :
          client' = IF kind = "http"
                    THEN HttpClientInit(kind, args, args.url)
                    ELSE ServiceInit(kind, args)
    /\ UNCHANGED <<scenario, upstream, query, calls, fetch, tokens,
                   tokensConsumed, session, sessions, blocks, guarded, window>>

(* ------------------------------ upstream ------------------------------ *)
\* what the upstream puts in the x-total-pages header of a GitLab response:
\* the page count, no such header, or a text that is not a number
HeaderKinds == {"count", "absent", "empty", "word", "fraction"}

\* the response headers of a GitLab page for page count n
GitlabHeaders(kind, n) ==
    CASE kind = "count"    -> [x_total_pages |-> Decimal(n)]
      [] kind = "absent"   -> <<>>
      [] kind = "empty"    -> [x_total_pages |-> <<>>]
      [] kind = "word"     -> [x_total_pages |-> <<"n", "o", "n", "e">>]
      [] kind = "fraction" -> [x_total_pages |-> Decimal(n) \o <<".", "0">>]

\* x-total-pages as GitLab reports it: at least one page, also for an empty list
UpstreamTotalPages(per_page) == Max(1, Ceil(upstream.total, per_page))

\* the scenarios in which create_or_update_page is called: once, or twice
\* at the same time
UpsertScenarios == {"upsert", "upserts"}

\* The response the upstream gives to one request attempt of `call` that
\* carried `param` (startAt for Jira, page for GitLab, the argument of a
\* direct call) in its query string.  An attempt made for the changelog of a
\* ticket goes to the URL of that ticket, the one of the call's owner, and
\* is served items of that ticket's changelog.  An attempt made for
\* create_or_update_page carries what it is for (the title lookup, the
\* version read, the update or the create) and the dict it was given.  A
\* Confluence traversal attempt carries a URL and
\* a query map.  The URL is the client's base URL followed by what the
\* caller passed: 1 stands for the path of the collection and k > 1 for the
\* link to page k, the "next" link of page k - 1; the last page has no
\* "next" link.  The upstream serves the page that the last part names.
Serve(call, param) ==
    CASE scenario = "jira" ->
           [headers |-> <<>>,
            content |-> [total  |-> upstream.total,
                         values |-> Items(param + 1,
                                          Min(param + query.maxResults,
                                              upstream.total))]]
      [] scenario = "gitlab" ->
           [headers |-> GitlabHeaders(upstream.header,
                                      UpstreamTotalPages(query.per_page)),
            content |-> Items((param - 1) * query.per_page + 1,
                              Min(param * query.per_page, upstream.total))]
      [] scenario = "confluence" ->
           LET k == param.url[Len(param.url)]
           IN  [headers |-> <<>>,
                content |->
                  [results |-> Items((k - 1) * upstream.size + 1,
                                     Min(k * upstream.size, upstream.total)),
                   links   |-> IF k < UpstreamTotalPages(upstream.size)
                               THEN [next |-> k + 1]
                               ELSE <<>>]]
      [] scenario = "changelogs" ->
           LET total == upstream[call.owner].total
               size  == query[call.owner].maxResults
           IN  [headers |-> <<>>,
                content |->
                  [total  |-> total,
                   values |-> [n \in 1..Len(Items(param + 1,
                                                  Min(param + size, total)))
                                 |-> <<call.owner, param + n>>]]]
      [] scenario \in UpsertScenarios ->
           [headers |-> <<>>,
            content |->
              CASE param.kind = "lookup" ->
                     [results |-> IF upstream.exists
                                  THEN <<[id |-> 1, title |-> "title"]>>
                                  ELSE <<>>]
                [] param.kind = "version" ->
                     [id |-> 1, version |-> [number |-> upstream.version]]
                [] OTHER -> <<>>]
      [] OTHER ->
           [headers |-> <<"headers", call.method, param>>,
            content |-> <<call.method, param>>]

\* The upstream accepts the attempt of `call` that carried `param`.  A
\* Confluence space holds one page per title, and a page takes an update
\* only with the version number that follows its own.
Accepts(call, param) ==
    scenario \in UpsertScenarios =>
        CASE param.kind = "create" -> ~upstream.exists
          [] param.kind = "update" ->
               /\ upstream.exists
               /\ param.body.version = upstream.version + 1
          [] OTHER -> TRUE

\* the upstream after it has accepted that attempt
Applied(call, param) ==
    IF scenario \in UpsertScenarios
    THEN CASE param.kind = "create" -> [exists |-> TRUE, version |-> 1]
           [] param.kind = "update" ->
                [upstream EXCEPT !.version = param.body.version]
           [] OTHER -> upstream
    ELSE upstream

(* ------------------- HttpClient.get/post/put/delete ------------------- *)
\* variant: delete is decorated with @retry as well
Methods_WithDelete == {"GET", "POST", "PUT", "DELETE"}

\* the methods decorated with @retry
Methods == {"GET", "POST", "PUT"}

\* delete carries no @retry
AllMethods == Methods \cup {"DELETE"}

\* what an attempt can raise: a transport failure or non-2xx status
\* (raise_for_status=True), or response.json() failing to decode the body
ErrKinds == {"ClientError", "DecodeError"}

NoError == [type |-> "none", cause |-> "none"]

NoResult == [headers |-> <<>>, content |-> <<>>]

\* owner is the coroutine that made the call, where several are followed;
\* via, sid and temp describe the attempt under way or last made: whether it
\* runs on the client's session ("shared", sid is the session) or on a
\* session of its own ("temp"), and whether that session is open or closed;
\* began is the session the call's first attempt ran on, 0 for one of its own
IdleCall ==
    [pc |-> "idle", method |-> "none", arg |-> 0, attempt |-> 0,
     sent |-> <<>>, lastErr |-> "none", result |-> NoResult, error |-> NoError,
     via |-> "none", sid |-> 0, temp |-> "none", owner |-> 0, began |-> 0]

\* variant: the retrying is shared by the calls, and once one call has given
\* up no attempt of any call is retried
RetryIf_UntilOneGaveUp(err) ==
    \A d \in DOMAIN calls : calls[d].pc # "failed"

\* @retry(...) is given no retry= argument: tenacity retries on every
\* exception, and keeps the attempt count in the state of the one call
RetryIf(err) == TRUE

\* variant: the stop condition lets one more attempt through
StopAfterAttempt_OneMore(attempt) == attempt > MAX_ATTEMPTS

\* stop=stop_after_attempt(5)
StopAfterAttempt(attempt) == attempt >= MAX_ATTEMPTS

\* variant: the retrying is told to re-raise the last attempt's exception
RERAISE_True == TRUE

\* @retry(...) is given no reraise= argument: tenacity's default is False
RERAISE == FALSE

\* what the caller receives once tenacity gives up on an attempt's exception
Surface(err, gaveUp) ==
    IF gaveUp /\ ~RERAISE
    THEN [type |-> "RetryError", cause |-> err]
    ELSE [type |-> err, cause |-> "none"]

\* get returns {"headers": ..., "content": ...}; post and put return the
\* body; delete reads the body and returns None
Returned(method, response) ==
    IF method = "GET" THEN response
    ELSE IF method = "DELETE" THEN NoResult
    ELSE [headers |-> <<>>, content |-> response.content]

\* url=self._url + suffix_url; __init__ rejects an empty base URL
HttpUrl(suffix_url) == <<"base">> \o <<suffix_url>>

\* The value an attempt of call c puts on the wire.  kwargs holds a reference
\* to the caller's dict: a paginated fetch passes params=query, the one dict
\* all its calls share, and the dict is read when the attempt is issued.
ParamOf(q, call) ==
    CASE scenario \in {"jira", "changelogs"} -> q.startAt
      [] scenario = "gitlab" -> q.page
      [] scenario = "confluence" -> [url |-> HttpUrl(call.arg), params |-> q]
      [] scenario \in UpsertScenarios -> [kind |-> call.arg, body |-> q]
      [] OTHER               -> call.arg

\* variant: the session is chosen once, at the first attempt, and the
\* retries of the call stay on it
OnSession_ChosenOnce(call) ==
    CASE call.attempt > 1 /\ call.via = "shared" -> call
      [] call.attempt > 1 /\ call.via = "temp" -> [call EXCEPT !.temp = "open"]
      [] session # 0 ->
           [call EXCEPT !.via = "shared", !.sid = session, !.temp = "none"]
      [] OTHER -> [call EXCEPT !.via = "temp", !.sid = 0, !.temp = "open"]

\* `if self._session:` an attempt runs on the client's session when the
\* client holds one (a closed ClientSession is as true as an open one), else
\* on a ClientSession it opens for itself
OnSession(call) ==
    IF session # 0
    THEN [call EXCEPT !.via = "shared", !.sid = session, !.temp = "none"]
    ELSE [call EXCEPT !.via = "temp", !.sid = 0, !.temp = "open"]

\* leaving `async with ClientSession(...) as session` closes the attempt's
\* own session, on return and on exception alike
CloseTemp(call) ==
    IF call.temp = "open" THEN [call EXCEPT !.temp = "closed"] ELSE call

\* a call of get/post/put/delete: the first attempt is issued
Issue(method, arg, q) ==
    LET c0 == [IdleCall EXCEPT !.method = method, !.arg = arg]
        c1 == OnSession([c0 EXCEPT !.pc = "inflight", !.attempt = 1,
                                   !.sent = <<ParamOf(q, c0)>>])
    IN  [c1 EXCEPT !.began = c1.sid]

\* the same, for the call made by coroutine `owner`
IssueFor(owner, method, arg, q) ==
    [Issue(method, arg, q) EXCEPT !.owner = owner]

\* params=... of get_page_from_title and of get_page_from_id: each builds a
\* dict of its own, which nothing writes to afterwards
ConfluenceLookupQuery == [title |-> "title", body_format |-> "storage"]

ConfluenceVersionQuery == [body_format |-> "storage"]

\* variant: the fetches of all tickets work on the dict of the second
Kwargs_OneDict(call) ==
    IF scenario = "changelogs" THEN query[2] ELSE query

\* the dict that the kwargs of `call` refer to, as it is now
Kwargs(call) ==
    CASE scenario = "changelogs" -> query[call.owner]
      [] scenario \in UpsertScenarios ->
           (CASE call.arg = "lookup"  -> ConfluenceLookupQuery
              [] call.arg = "version" -> ConfluenceVersionQuery
              [] OTHER                -> query[call.owner])
      [] OTHER -> query

\* the session the attempt of call runs on can still carry a response: a
\* request on a closed ClientSession raises
SessionUsable(call) ==
    call.via = "shared" => sessions[call.sid] = "open"

\* variant: the response read is the one to the request last put on the
\* session, whichever call made it
Response_LastOnSession(c) ==
    LET last == CHOOSE d \in DOMAIN calls :
                    /\ calls[d].pc = "inflight"
                    /\ \A e \in DOMAIN calls :
                          calls[e].pc = "inflight" => e <= d
    IN  Serve(calls[last], calls[last].sent[calls[last].attempt])

\* `response` in the attempt of call c under way: the response aiohttp
\* hands to the request this attempt made, a local of the attempt
Response(c) == Serve(calls[c], calls[c].sent[calls[c].attempt])

\* the attempt in flight gets a 2xx response with a JSON body, the upstream
\* having done what was asked
RespondOk(c) ==
    /\ calls[c].pc = "inflight"
    /\ SessionUsable(calls[c])
    /\ Accepts(calls[c], calls[c].sent[calls[c].attempt])
    /\ calls' = [calls EXCEPT ![c] =
                   CloseTemp(
                   [@ EXCEPT !.pc = "done",
                             !.lastErr = "none",
                             !.result = Returned(calls[c].method,
                                                 Response(c))])]
    /\ upstream' = Applied(calls[c], calls[c].sent[calls[c].attempt])
    /\ UNCHANGED <<client, scenario, query, fetch, tokens, tokensConsumed>>
    /\ UNCHANGED <<session, sessions, blocks, guarded, window>>

\* the attempt in flight raises err (delete reads the body without decoding
\* it); under @retry tenacity sleeps before the next attempt or gives up;
\* delete raises err to its caller at once
RespondFail(c, err) ==
    /\ calls[c].pc = "inflight"
    /\ calls[c].method = "DELETE" => err = "ClientError"
    /\ calls' = [calls EXCEPT ![c] =
                   CloseTemp(
                   IF @.method \in Methods /\ RetryIf(err)
                        /\ ~StopAfterAttempt(@.attempt)
                   THEN [@ EXCEPT !.pc = "sleeping", !.lastErr = err]
                   ELSE [@ EXCEPT !.pc = "failed", !.lastErr = err,
                                  !.error = Surface(err,
                                              calls[c].method \in Methods
                                                /\ RetryIf(err))])]
    /\ UNCHANGED <<client, scenario, upstream, query, fetch, tokens, tokensConsumed>>
    /\ UNCHANGED <<session, sessions, blocks, guarded, window>>

\* the backoff sleep ends; the wrapped function is called again with the
\* same args and kwargs
RetryWake(c) ==
    /\ calls[c].pc = "sleeping"
    /\ calls' = [calls EXCEPT ![c] =
                   OnSession(
                   [@ EXCEPT !.pc = "inflight",
                             !.attempt = @ + 1,
                             !.sent = Append(@, ParamOf(Kwargs(calls[c]),
                                                        calls[c]))])]
    /\ UNCHANGED <<client, scenario, upstream, query, fetch, tokens, tokensConsumed>>
    /\ UNCHANGED <<session, sessions, blocks, guarded, window>>

(* ------------------------- asyncio.gather ----------------------------- *)
\* the calls made by the tasks handed to gather: task i is calls[i]
Tasks == 1..fetch.tasks

\* gather(*tasks) resolves once every task has returned ...
GatherResolved == \A i \in Tasks : calls[i].pc = "done"

\* ... with what the tasks' calls returned, in the order the tasks were passed
GatherResults == [i \in Tasks |-> calls[i].result]

\* ... and raises the first exception of any task (return_exceptions is
\* False); the remaining tasks are not cancelled
GatherRaises(i) == i \in Tasks /\ calls[i].pc = "failed"

(* --------------------- JiraClient._get_paginated ---------------------- *)
\* get_next_page(start_at) up to the await of its first attempt
JiraGetNextPage(start_at, q) ==
    LET q1 == [q EXCEPT !.startAt = start_at]
    IN  [query |-> q1, call |-> Issue("GET", start_at, q1)]

\* variant: the page count is rounded down and one is added
JiraTotalPages_FloorPlusOne(response, q) ==
    (response.content.total \div q.maxResults) + 1

\* The event loop runs every new task up to its first suspension, in the
\* order gather created them: task i writes the query and starts its call.
RECURSIVE JiraStartTasks(_, _, _, _)
JiraStartTasks(i, args, q, cs) ==
    IF i > Len(args) THEN [query |-> q, calls |-> cs]
    ELSE LET step == JiraGetNextPage(args[i], q)
         IN  JiraStartTasks(i + 1, args, step.query, cs @@ (i :> step.call))

\* math.ceil(response["content"]["total"] / query["maxResults"])
JiraTotalPages(response, q) == Ceil(response.content.total, q.maxResults)

\* variant: the range runs one page too far
JiraTaskArgs_OneMore(total_pages, q) ==
    [i \in 1..total_pages |-> q.startAt + i * q.maxResults]

\* [get_next_page(query["startAt"] + i * query["maxResults"])
\*  for i in range(1, total_pages)]: the arguments are evaluated here
JiraTaskArgs(total_pages, q) ==
    [i \in 1..(total_pages - 1) |-> q.startAt + i * q.maxResults]

\* response_["content"][result_field]
JiraPageItems(response) == response.content.values

\* variant: the second page is requested together with the first, before
\* the total is known
JiraGetPaginated_Prefetch ==
    /\ scenario = "jira"
    /\ fetch.pc = "idle"
    /\ calls' = (0 :> Issue("GET", query.startAt, query))
                   @@ (1 :> Issue("GET", query.startAt + query.maxResults,
                                  [query EXCEPT !.startAt =
                                       query.startAt + query.maxResults]))
    /\ fetch' = [fetch EXCEPT !.pc = "first"]
    /\ UNCHANGED <<client, scenario, upstream, query, tokens, tokensConsumed>>
    /\ UNCHANGED <<session, sessions, blocks, guarded, window>>

\* _get_paginated is called: the first page is requested
JiraGetPaginated ==
    /\ scenario = "jira"
    /\ fetch.pc = "idle"
    /\ calls' = (0 :> Issue("GET", query.startAt, query))
    /\ fetch' = [fetch EXCEPT !.pc = "first"]
    /\ UNCHANGED <<client, scenario, upstream, query, tokens, tokensConsumed>>
    /\ UNCHANGED <<session, sessions, blocks, guarded, window>>

\* the first page is back: total_pages and responses are computed, the tasks
\* are built and handed to gather, and each runs up to its first await
JiraFirstPage ==
    /\ scenario = "jira"
    /\ fetch.pc = "first"
    /\ calls[0].pc = "done"
    /\ LET response    == calls[0].result
           total_pages == JiraTotalPages(response, query)
           args        == JiraTaskArgs(total_pages, query)
           started     == JiraStartTasks(1, args, query, calls)
       IN  /\ fetch' = [fetch EXCEPT !.pc = "gather",
                                     !.total_pages = total_pages,
                                     !.responses = JiraPageItems(response),
                                     !.tasks = Len(args)]
           /\ query' = started.query
           /\ calls' = started.calls
    /\ UNCHANGED <<client, scenario, upstream, tokens, tokensConsumed>>
    /\ UNCHANGED <<session, sessions, blocks, guarded, window>>

\* results = await asyncio.gather(*tasks); responses.extend(...); return
JiraGatherDone ==
    /\ scenario = "jira"
    /\ fetch.pc = "gather"
    /\ GatherResolved
    /\ fetch' = [fetch EXCEPT
                   !.pc = "returned",
                   !.result = fetch.responses
                                \o Flatten([i \in Tasks |->
                                              JiraPageItems(GatherResults[i])])]
    /\ UNCHANGED <<client, scenario, upstream, query, calls, tokens, tokensConsumed>>
    /\ UNCHANGED <<session, sessions, blocks, guarded, window>>

(* --------------- JiraClient.changelogs_from_tickets ------------------- *)
\* The tickets given, by their place in the list.  fetch[0] is the coroutine
\* of changelogs_from_tickets, fetch[t] the task of changelogs(key) for
\* ticket t, query[t] the dict that task built, and calls[<<t, i>>] the
\* calls of its _get_paginated: i = 0 for the first page, then the fan-out.
\* fetch[0].finished lists the tasks gather has seen finish, in the order
\* in which they finished.
Tickets == 1..MaxTickets

\* the changelogs are short and long in turn: half a page for the first
\* ticket, a page and a half for the second, and so on
ChangelogTotal(t) ==
    IF t % 2 = 1 THEN FACADE_PAGE_SIZE \div 2
    ELSE FACADE_PAGE_SIZE + FACADE_PAGE_SIZE \div 2

\* query = {"startAt": 0, "maxResults": 100} in changelogs
ChangelogsQuery == [startAt |-> 0, maxResults |-> FACADE_PAGE_SIZE]

\* changelogs_from_tickets is called: a task is created for every ticket,
\* and at `await asyncio.gather(*tasks)` each task runs up to the await of
\* its first page: it builds its query and calls _get_paginated
JiraChangelogsFromTickets ==
    /\ scenario = "changelogs"
    /\ fetch[0].pc = "idle"
    /\ query' = [t \in Tickets |-> ChangelogsQuery]
    /\ calls' = [c \in {<<t, 0>> : t \in Tickets} |->
                   IssueFor(c[1], "GET", ChangelogsQuery.startAt,
                            ChangelogsQuery)]
    /\ fetch' = [t \in DOMAIN fetch |->
                   [fetch[t] EXCEPT !.pc = IF t = 0 THEN "gather"
                                                   ELSE "first"]]
    /\ UNCHANGED <<client, scenario, upstream, tokens, tokensConsumed>>
    /\ UNCHANGED <<session, sessions, blocks, guarded, window>>

\* the tasks of _get_paginated for ticket t run up to their first await, in
\* the order gather created them
RECURSIVE JiraChangelogStartTasks(_, _, _, _, _)
JiraChangelogStartTasks(t, i, args, q, cs) ==
    IF i > Len(args) THEN [query |-> q, calls |-> cs]
    ELSE LET step == JiraGetNextPage(args[i], q)
         IN  JiraChangelogStartTasks(
                 t, i + 1, args, step.query,
                 cs @@ (<<t, i>> :> [step.call EXCEPT !.owner = t]))

\* _get_paginated of ticket t: the first page is back
JiraChangelogFirstPage(t) ==
    /\ scenario = "changelogs"
    /\ fetch[t].pc = "first"
    /\ calls[<<t, 0>>].pc = "done"
    /\ LET response    == calls[<<t, 0>>].result
           total_pages == JiraTotalPages(response, query[t])
           args        == JiraTaskArgs(total_pages, query[t])
           started     == JiraChangelogStartTasks(t, 1, args, query[t], calls)
       IN  /\ fetch' = [fetch EXCEPT ![t].pc = "gather",
                                     ![t].total_pages = total_pages,
                                     ![t].responses = JiraPageItems(response),
                                     ![t].tasks = Len(args)]
           /\ query' = [query EXCEPT ![t] = started.query]
           /\ calls' = started.calls
    /\ UNCHANGED <<client, scenario, upstream, tokens, tokensConsumed>>
    /\ UNCHANGED <<session, sessions, blocks, guarded, window>>

\* _get_paginated of ticket t: gather has resolved, the pages are put
\* together and changelogs(key) returns them
JiraChangelogGatherDone(t) ==
    /\ scenario = "changelogs"
    /\ fetch[t].pc = "gather"
    /\ \A i \in 1..fetch[t].tasks : calls[<<t, i>>].pc = "done"
    /\ fetch' = [fetch EXCEPT
                   ![t].pc = "returned",
                   ![t].result =
                       fetch[t].responses
                         \o Flatten([i \in 1..fetch[t].tasks |->
                                        JiraPageItems(calls[<<t, i>>].result)]),
                   ![0].finished = Append(@, t)]
    /\ UNCHANGED <<client, scenario, upstream, query, calls, tokens, tokensConsumed>>
    /\ UNCHANGED <<session, sessions, blocks, guarded, window>>

\* _get_paginated of ticket t: the awaited call i raises (the first page
\* for i = 0, else a task of gather); changelogs(key) raises with it
JiraChangelogFail(t, i) ==
    /\ scenario = "changelogs"
    /\ \/ fetch[t].pc = "first" /\ i = 0
       \/ fetch[t].pc = "gather" /\ i \in 1..fetch[t].tasks
    /\ calls[<<t, i>>].pc = "failed"
    /\ fetch' = [fetch EXCEPT ![t].pc = "failed",
                              ![t].error = calls[<<t, i>>].error]
    /\ UNCHANGED <<client, scenario, upstream, query, calls, tokens, tokensConsumed>>
    /\ UNCHANGED <<session, sessions, blocks, guarded, window>>

\* variant: gather hands the changelogs back in the order in which the
\* tasks finished
JiraChangelogsGathered_AsCompleted ==
    /\ scenario = "changelogs"
    /\ fetch[0].pc = "gather"
    /\ \A t \in Tickets : fetch[t].pc = "returned"
    /\ fetch' = [fetch EXCEPT
                   ![0].pc = "returned",
                   ![0].result =
                       [t \in Tickets |->
                          [key |-> t,
                           changelog |-> fetch[fetch[0].finished[t]].result]]]
    /\ UNCHANGED <<client, scenario, upstream, query, calls, tokens, tokensConsumed>>
    /\ UNCHANGED <<session, sessions, blocks, guarded, window>>

\* changelogs = await asyncio.gather(*tasks) resolves with the results in
\* the order of the tasks: the changelogs are paired with the tickets, in
\* the order of the tickets
JiraChangelogsGathered ==
    /\ scenario = "changelogs"
    /\ fetch[0].pc = "gather"
    /\ \A t \in Tickets : fetch[t].pc = "returned"
    /\ fetch' = [fetch EXCEPT
                   ![0].pc = "returned",
                   ![0].result = [t \in Tickets |->
                                    [key |-> t, changelog |-> fetch[t].result]]]
    /\ UNCHANGED <<client, scenario, upstream, query, calls, tokens, tokensConsumed>>
    /\ UNCHANGED <<session, sessions, blocks, guarded, window>>

\* gather raises the exception of the task of ticket t; the other tasks go
\* on
JiraChangelogsFail(t) ==
    /\ scenario = "changelogs"
    /\ fetch[0].pc = "gather"
    /\ fetch[t].pc = "failed"
    /\ fetch' = [fetch EXCEPT ![0].pc = "failed",
                              ![0].error = fetch[t].error]
    /\ UNCHANGED <<client, scenario, upstream, query, calls, tokens, tokensConsumed>>
    /\ UNCHANGED <<session, sessions, blocks, guarded, window>>

(* -------------------- GitlabClient._get_paginated --------------------- *)
\* get_next_page(page) up to the await of its first attempt
GitlabGetNextPage(page, q) ==
    LET q1 == [q EXCEPT !.page = page]
    IN  [query |-> q1, call |-> Issue("GET", page, q1)]

\* The event loop runs every new task up to its first suspension, in the
\* order gather created them: task i writes the query and starts its call.
RECURSIVE GitlabStartTasks(_, _, _, _)
GitlabStartTasks(i, args, q, cs) ==
    IF i > Len(args) THEN [query |-> q, calls |-> cs]
    ELSE LET step == GitlabGetNextPage(args[i], q)
         IN  GitlabStartTasks(i + 1, args, step.query, cs @@ (i :> step.call))

\* variant: a header that is absent or not a number counts as one page
GitlabTotalPages_DefaultOne(response) ==
    IF "x_total_pages" \in DOMAIN response.headers
         /\ IsNumeral(response.headers.x_total_pages)
    THEN [error |-> "none", value |-> IntOf(response.headers.x_total_pages)]
    ELSE [error |-> "none", value |-> 1]

\* int(response["headers"]["x-total-pages"]): the subscript raises KeyError
\* when the response has no such header, int() raises ValueError when the
\* header's text is not a number
GitlabTotalPages(response) ==
    IF "x_total_pages" \notin DOMAIN response.headers
    THEN [error |-> "KeyError", value |-> 0]
    ELSE IF ~IsNumeral(response.headers.x_total_pages)
    THEN [error |-> "ValueError", value |-> 0]
    ELSE [error |-> "none", value |-> IntOf(response.headers.x_total_pages)]

\* variant: the range runs one page too far
GitlabTaskArgs_OneMore(total_pages, q) ==
    [i \in 1..total_pages |-> q.page + i]

\* [get_next_page(query["page"] + i) for i in range(1, total_pages)]
GitlabTaskArgs(total_pages, q) ==
    [i \in 1..(total_pages - 1) |-> q.page + i]

\* response_["content"]
GitlabPageItems(response) == response.content

(* -------------------- GitlabClient.limit_requests --------------------- *)
\* the coroutine functions of GitlabClient decorated with @limit_requests
GuardedOps ==
    {"_get_paginated", "changes_from_merge_request", "pipeline",
     "approvals_from_merge_request"}

\* variant: every decorated operation is given a bucket of its own
LimiterBucket_PerOperation(op) == op

\* @limit_requests is applied bare, with no bucket= argument: every decorated
\* operation draws from the default bucket of the one class-level Limiter
LimiterBucket(op) == "default"

Buckets == {LimiterBucket(op) : op \in GuardedOps}

\* @limit_requests: the decorated coroutine function takes this many tokens
\* from the class-level bucket each time it is called
LimiterConsume == 1

\* Time is counted in token periods: the bucket gains one token every
\* 1 / LIMIT_REQUESTS_RATE seconds.  A window opens each time the bucket is
\* full and is followed for MaxWindow periods.
FullWindow == [open |-> TRUE, ticks |-> 0, started |-> 0]

ClosedWindow == [open |-> FALSE, ticks |-> 0, started |-> 0]

\* a guarded operation starts
WindowStart(w) == IF w.open THEN [w EXCEPT !.started = @ + 1] ELSE w

\* one token period passes; full tells whether it leaves the bucket full
WindowTick(w, full) ==
    IF full THEN FullWindow
    ELSE IF w.open /\ w.ticks < MaxWindow THEN [w EXCEPT !.ticks = @ + 1]
    ELSE ClosedWindow

\* variant: the limiter lets a call start without looking at the bucket
LimiterHasToken_Always(b) == TRUE

\* bucket.consume succeeds only when the bucket holds the tokens asked for
LimiterHasToken(b) == tokens[b] >= LimiterConsume

\* the bucket and its window after bucket.consume succeeded for operation op
LimiterTake(op) ==
    [tokens |-> [tokens EXCEPT ![LimiterBucket(op)] = @ - LimiterConsume],
     window |-> [window EXCEPT ![LimiterBucket(op)] = WindowStart(@)]]

\* _get_paginated is called: the limiter lets the call in once a token is
\* available, then the first page is requested
GitlabGetPaginated ==
    /\ scenario = "gitlab"
    /\ fetch.pc = "idle"
    /\ LimiterHasToken(LimiterBucket("_get_paginated"))
    /\ tokens' = LimiterTake("_get_paginated").tokens
    /\ window' = LimiterTake("_get_paginated").window
    /\ tokensConsumed' = tokensConsumed + LimiterConsume
    /\ calls' = (0 :> Issue("GET", query.page, query))
    /\ fetch' = [fetch EXCEPT !.pc = "first"]
    /\ UNCHANGED <<client, scenario, upstream, query>>
    /\ UNCHANGED <<session, sessions, blocks, guarded>>

\* variant: the bucket gains a token even when it is full
Refill_Uncapped(b) ==
    /\ tokens' = [tokens EXCEPT ![b] = @ + 1]
    /\ window' = [window EXCEPT ![b] =
                     WindowTick(@, tokens[b] + 1 = LIMIT_REQUESTS_CAPACITY)]
    /\ UNCHANGED <<client, scenario, upstream, query, calls, fetch, tokensConsumed>>
    /\ UNCHANGED <<session, sessions, blocks, guarded>>

\* one token period passes: the bucket gains a token, never beyond its
\* capacity
Refill(b) ==
    /\ tokens[b] < LIMIT_REQUESTS_CAPACITY
    /\ tokens' = [tokens EXCEPT ![b] = @ + 1]
    /\ window' = [window EXCEPT ![b] =
                     WindowTick(@, tokens[b] + 1 = LIMIT_REQUESTS_CAPACITY)]
    /\ UNCHANGED <<client, scenario, upstream, query, calls, fetch, tokensConsumed>>
    /\ UNCHANGED <<session, sessions, blocks, guarded>>

(* --------------- calls of the rate-limited operations ----------------- *)
\* A call of a guarded operation is named <<op, n>>: the n-th of the calls
\* of operation op that are followed.
IdleGuarded == [pc |-> "idle"]

\* a decorated operation is called: the limiter tries the bucket at once; the
\* call runs its body if it got a token and sleeps otherwise
GuardedCall(g) ==
    /\ scenario \in {"limiter", "waiters"}
    /\ guarded[g].pc = "idle"
    /\ IF LimiterHasToken(LimiterBucket(g[1]))
       THEN /\ guarded' = [guarded EXCEPT ![g].pc = "running"]
            /\ tokens' = LimiterTake(g[1]).tokens
            /\ window' = LimiterTake(g[1]).window
       ELSE /\ guarded' = [guarded EXCEPT ![g].pc = "waiting"]
            /\ UNCHANGED <<tokens, window>>
    /\ UNCHANGED <<client, scenario, upstream, query, calls, fetch, tokensConsumed>>
    /\ UNCHANGED <<session, sessions, blocks>>

\* a sleeping call wakes, tries the bucket again and gets a token (a wake-up
\* that finds the bucket empty changes nothing: the call sleeps again)
GuardedAcquire(g) ==
    /\ guarded[g].pc = "waiting"
    /\ LimiterHasToken(LimiterBucket(g[1]))
    /\ guarded' = [guarded EXCEPT ![g].pc = "running"]
    /\ tokens' = LimiterTake(g[1]).tokens
    /\ window' = LimiterTake(g[1]).window
    /\ UNCHANGED <<client, scenario, upstream, query, calls, fetch, tokensConsumed>>
    /\ UNCHANGED <<session, sessions, blocks>>

\* the body of the operation returns or raises; nothing goes back to the
\* bucket, and the operation can be called again
GuardedReturn(g) ==
    /\ guarded[g].pc = "running"
    /\ guarded' = [guarded EXCEPT ![g] = IdleGuarded]
    /\ UNCHANGED <<client, scenario, upstream, query, calls, fetch, tokens,
                   tokensConsumed>>
    /\ UNCHANGED <<session, sessions, blocks, window>>

\* the first page is back: the header is read, which raises out of
\* _get_paginated when it cannot be read as a number; with more than one
\* page the tasks are built, handed to gather and run up to their first
\* await, otherwise the first page's list is returned
GitlabFirstPage ==
    /\ scenario = "gitlab"
    /\ fetch.pc = "first"
    /\ calls[0].pc = "done"
    /\ LET response    == calls[0].result
           parsed      == GitlabTotalPages(response)
           total_pages == parsed.value
           responses   == GitlabPageItems(response)
           args        == GitlabTaskArgs(total_pages, query)
           started     == GitlabStartTasks(1, args, query, calls)
       IN  IF parsed.error # "none"
           THEN /\ fetch' = [fetch EXCEPT !.pc = "failed",
                                          !.error = [type  |-> parsed.error,
                                                     cause |-> "none"]]
                /\ UNCHANGED <<query, calls>>
           ELSE IF total_pages > 1
           THEN /\ fetch' = [fetch EXCEPT !.pc = "gather",
                                          !.total_pages = total_pages,
                                          !.responses = responses,
                                          !.tasks = Len(args)]
                /\ query' = started.query
                /\ calls' = started.calls
           ELSE /\ fetch' = [fetch EXCEPT !.pc = "returned",
                                          !.total_pages = total_pages,
                                          !.responses = responses,
                                          !.result = responses]
                /\ UNCHANGED <<query, calls>>
    /\ UNCHANGED <<client, scenario, upstream, tokens, tokensConsumed>>
    /\ UNCHANGED <<session, sessions, blocks, guarded, window>>

\* results = await asyncio.gather(*tasks); responses.extend(...); return
GitlabGatherDone ==
    /\ scenario = "gitlab"
    /\ fetch.pc = "gather"
    /\ GatherResolved
    /\ fetch' = [fetch EXCEPT
                   !.pc = "returned",
                   !.result = fetch.responses
                                \o Flatten([i \in Tasks |->
                                              GitlabPageItems(GatherResults[i])])]
    /\ UNCHANGED <<client, scenario, upstream, query, calls, tokens, tokensConsumed>>
    /\ UNCHANGED <<session, sessions, blocks, guarded, window>>

(* ------------------- failures reaching _get_paginated ----------------- *)
\* await self._http_client.get(...) for the first page raises: nothing in
\* _get_paginated catches it
FirstPageFail ==
    /\ fetch.pc = "first"
    /\ calls[0].pc = "failed"
    /\ fetch' = [fetch EXCEPT !.pc = "failed", !.error = calls[0].error]
    /\ UNCHANGED <<client, scenario, upstream, query, calls, tokens, tokensConsumed>>
    /\ UNCHANGED <<session, sessions, blocks, guarded, window>>

\* variant: the exception of task i is swallowed and the pages collected so
\* far are returned
GatherFail_Swallow(i) ==
    /\ fetch.pc = "gather"
    /\ GatherRaises(i)
    /\ fetch' = [fetch EXCEPT !.pc = "returned", !.result = fetch.responses]
    /\ UNCHANGED <<client, scenario, upstream, query, calls, tokens, tokensConsumed>>
    /\ UNCHANGED <<session, sessions, blocks, guarded, window>>

\* await asyncio.gather(*tasks) raises the exception of task i: nothing in
\* _get_paginated catches it, and nothing cancels the other tasks
GatherFail(i) ==
    /\ fetch.pc = "gather"
    /\ GatherRaises(i)
    /\ fetch' = [fetch EXCEPT !.pc = "failed", !.error = calls[i].error]
    /\ UNCHANGED <<client, scenario, upstream, query, calls, tokens, tokensConsumed>>
    /\ UNCHANGED <<session, sessions, blocks, guarded, window>>

(* -------------- ConfluenceClient.get_all_pages_in_space --------------- *)
\* url = f"{self.PREFIX_API_V2}/spaces/{space_id}/pages"
ConfluenceFirstUrl == 1

\* content["_links"].get("next"): None, written 0, when there is no link
ConfluenceNextUrl(content) ==
    IF "next" \in DOMAIN content.links THEN content.links.next ELSE 0

\* query = {}
ConfluenceNextQuery(q) == <<>>

\* variant: only the page just received is kept
ConfluenceExtend_Replace(responses, content) == content.results

\* responses.extend(content["results"])
ConfluenceExtend(responses, content) == responses \o content.results

\* variant: the request for the second page is sent along with the first
ConfluenceGetAllPages_Eager ==
    /\ scenario = "confluence"
    /\ fetch.pc = "idle"
    /\ calls' = (1 :> Issue("GET", ConfluenceFirstUrl, query))
                   @@ (2 :> Issue("GET", ConfluenceFirstUrl + 1, <<>>))
    /\ fetch' = [fetch EXCEPT !.pc = "page", !.url = ConfluenceFirstUrl,
                              !.tasks = 1]
    /\ UNCHANGED <<client, scenario, upstream, query, tokens, tokensConsumed>>
    /\ UNCHANGED <<session, sessions, blocks, guarded, window>>

\* get_all_pages_in_space is called: the query and the URL are built, the
\* loop is entered and the first request is made; fetch.tasks counts the
\* requests made so far
ConfluenceGetAllPages ==
    /\ scenario = "confluence"
    /\ fetch.pc = "idle"
    /\ calls' = (1 :> Issue("GET", ConfluenceFirstUrl, query))
    /\ fetch' = [fetch EXCEPT !.pc = "page", !.url = ConfluenceFirstUrl,
                              !.tasks = 1]
    /\ UNCHANGED <<client, scenario, upstream, query, tokens, tokensConsumed>>
    /\ UNCHANGED <<session, sessions, blocks, guarded, window>>

\* the awaited get returns: the rest of the loop body runs, and `while url:`
\* either makes the next request, to the link, or ends the loop
ConfluencePage ==
    /\ scenario = "confluence"
    /\ fetch.pc = "page"
    /\ calls[fetch.tasks].pc = "done"
    /\ LET content   == calls[fetch.tasks].result.content
           q         == ConfluenceNextQuery(query)
           responses == ConfluenceExtend(fetch.responses, content)
           url       == ConfluenceNextUrl(content)
       IN  /\ query' = q
           /\ IF url # 0
              THEN /\ calls' = ((fetch.tasks + 1) :> Issue("GET", url, q))
                                  @@ calls
                   /\ fetch' = [fetch EXCEPT !.responses = responses,
                                             !.url = url,
                                             !.tasks = @ + 1]
              ELSE /\ fetch' = [fetch EXCEPT !.pc = "returned",
                                             !.responses = responses,
                                             !.url = url,
                                             !.result = responses]
                   /\ UNCHANGED calls
    /\ UNCHANGED <<client, scenario, upstream, tokens, tokensConsumed>>
    /\ UNCHANGED <<session, sessions, blocks, guarded, window>>

\* the awaited get raises: nothing in get_all_pages_in_space catches it
ConfluenceFail ==
    /\ scenario = "confluence"
    /\ fetch.pc = "page"
    /\ calls[fetch.tasks].pc = "failed"
    /\ fetch' = [fetch EXCEPT !.pc = "failed",
                              !.error = calls[fetch.tasks].error]
    /\ UNCHANGED <<client, scenario, upstream, query, calls, tokens, tokensConsumed>>
    /\ UNCHANGED <<session, sessions, blocks, guarded, window>>

(* -------------- ConfluenceClient.create_or_update_page ---------------- *)
\* The calls of create_or_update_page that are followed.  fetch[u] is the
\* coroutine of call u, query[u] its dict `query`, and calls[<<u, k>>] the
\* get/put/post it made for k: "lookup" (get_page_from_title), "version"
\* (get_page_from_id), "update" (put) or "create" (post).
Upserts == {1}

\* two calls for the same space and title, under way at once
BothUpserts == {1, 2}

UpsertsIn(sc) == IF sc = "upserts" THEN BothUpserts ELSE Upserts

IdleUpsert == [pc |-> "idle", page_id |-> 0, version |-> 0, error |-> NoError]

\* the values of `representation` tried
Representations == {"storage", "wiki", "html"}

\* query = {"spaceId": ..., "status": "current", "title": ..., "parentId":
\* ..., "body": {...}}; the keys "id" and "version" are not there yet,
\* written 0
ConfluenceUpsertQuery(representation) ==
    [title |-> "title", representation |-> representation,
     id |-> 0, version |-> 0]

\* the exception classes that `except ValueError` catches: ValueError and
\* its subclasses, json.JSONDecodeError among them
IsValueError(error) == error.type \in {"ValueError", "DecodeError"}

\* `error` is raised inside the try block: `except ValueError` takes the
\* create path, any other exception leaves create_or_update_page
ConfluenceExcept(u, error) ==
    IF IsValueError(error)
    THEN /\ calls' = (<<u, "create">> :>
                         IssueFor(u, "POST", "create", query[u])) @@ calls
         /\ fetch' = [fetch EXCEPT ![u].pc = "create"]
    ELSE /\ fetch' = [fetch EXCEPT ![u].pc = "failed", ![u].error = error]
         /\ UNCHANGED calls

\* create_or_update_page is called: the representation is checked, outside
\* the try block, the query is built and the page is looked up by its title
ConfluenceCreateOrUpdatePage(u, representation) ==
    /\ scenario \in UpsertScenarios
    /\ fetch[u].pc = "idle"
    /\ IF representation \notin {"storage", "wiki"}
       THEN /\ fetch' = [fetch EXCEPT ![u].pc = "failed",
                                      ![u].error = [type  |-> "ValueError",
                                                    cause |-> "none"]]
            /\ UNCHANGED <<query, calls>>
       ELSE /\ query' = [query EXCEPT ![u] =
                            ConfluenceUpsertQuery(representation)]
            /\ calls' = (<<u, "lookup">> :>
                            IssueFor(u, "GET", "lookup",
                                     ConfluenceLookupQuery)) @@ calls
            /\ fetch' = [fetch EXCEPT ![u].pc = "lookup"]
    /\ UNCHANGED <<client, scenario, upstream, tokens, tokensConsumed>>
    /\ UNCHANGED <<session, sessions, blocks, guarded, window>>

\* the lookup is back: with no result get_page_from_title raises ValueError;
\* otherwise the page's id goes into the query and its version is read
ConfluenceLookupDone(u) ==
    /\ scenario \in UpsertScenarios
    /\ fetch[u].pc = "lookup"
    /\ calls[<<u, "lookup">>].pc = "done"
    /\ LET results == calls[<<u, "lookup">>].result.content.results
       IN  IF results = <<>>
           THEN /\ ConfluenceExcept(u, [type |-> "ValueError",
                                        cause |-> "none"])
                /\ UNCHANGED query
           ELSE /\ query' = [query EXCEPT ![u].id = results[1].id]
                /\ calls' = (<<u, "version">> :>
                                IssueFor(u, "GET", "version",
                                         ConfluenceVersionQuery)) @@ calls
                /\ fetch' = [fetch EXCEPT ![u].pc = "version",
                                          ![u].page_id = results[1].id]
    /\ UNCHANGED <<client, scenario, upstream, tokens, tokensConsumed>>
    /\ UNCHANGED <<session, sessions, blocks, guarded, window>>

\* the version is back: query["version"] = {"number": version + 1, ...} and
\* the update is sent
ConfluenceVersionDone(u) ==
    /\ scenario \in UpsertScenarios
    /\ fetch[u].pc = "version"
    /\ calls[<<u, "version">>].pc = "done"
    /\ LET version == calls[<<u, "version">>].result.content.version.number
           q       == [query[u] EXCEPT !.version = version + 1]
       IN  /\ query' = [query EXCEPT ![u] = q]
           /\ calls' = (<<u, "update">> :>
                           IssueFor(u, "PUT", "update", q)) @@ calls
           /\ fetch' = [fetch EXCEPT ![u].pc = "update",
                                     ![u].version = version]
    /\ UNCHANGED <<client, scenario, upstream, tokens, tokensConsumed>>
    /\ UNCHANGED <<session, sessions, blocks, guarded, window>>

\* the put or the post is back: create_or_update_page returns
ConfluenceWritten(u) ==
    /\ scenario \in UpsertScenarios
    /\ fetch[u].pc \in {"update", "create"}
    /\ calls[<<u, fetch[u].pc>>].pc = "done"
    /\ fetch' = [fetch EXCEPT ![u].pc = "returned"]
    /\ UNCHANGED <<client, scenario, upstream, query, calls, tokens, tokensConsumed>>
    /\ UNCHANGED <<session, sessions, blocks, guarded, window>>

\* the lookup, the version read or the put raises inside the try block
ConfluenceTryRaises(u) ==
    /\ scenario \in UpsertScenarios
    /\ fetch[u].pc \in {"lookup", "version", "update"}
    /\ calls[<<u, fetch[u].pc>>].pc = "failed"
    /\ ConfluenceExcept(u, calls[<<u, fetch[u].pc>>].error)
    /\ UNCHANGED <<client, scenario, upstream, query, tokens, tokensConsumed>>
    /\ UNCHANGED <<session, sessions, blocks, guarded, window>>

\* the post raises, inside the except block: nothing catches it
ConfluenceCreateRaises(u) ==
    /\ scenario \in UpsertScenarios
    /\ fetch[u].pc = "create"
    /\ calls[<<u, "create">>].pc = "failed"
    /\ fetch' = [fetch EXCEPT ![u].pc = "failed",
                              ![u].error = calls[<<u, "create">>].error]
    /\ UNCHANGED <<client, scenario, upstream, query, calls, tokens, tokensConsumed>>
    /\ UNCHANGED <<session, sessions, blocks, guarded, window>>

(* ------------------- direct use of HttpClient ------------------------- *)
\* the program calls get, post, put or delete on the client; each call has
\* kwargs of its own, told apart here by the call's index
Invoke(c, method) ==
    /\ scenario \in {"direct", "scoped", "shared"}
    /\ calls[c].pc = "idle"
    /\ calls' = [calls EXCEPT ![c] = Issue(method, c, query)]
    /\ UNCHANGED <<client, scenario, upstream, query, fetch, tokens, tokensConsumed>>
    /\ UNCHANGED <<session, sessions, blocks, guarded, window>>

(* ---------------- HttpClient.__aenter__ / __aexit__ ------------------- *)
\* depth: blocks entered and not yet left; closing: exits suspended in
\* `await self._session.close()`; crashed: an exit raised; overlap: a block
\* was entered while another was open; raised: a block was left by an
\* exception of its body
IdleBlocks ==
    [depth |-> 0, closing |-> 0, crashed |-> FALSE, overlap |-> FALSE,
     raised |-> FALSE]

\* async with client: __aenter__ stores a new ClientSession in _session,
\* whatever _session held
Enter ==
    /\ scenario \in {"scoped", "shared"}
    /\ Len(sessions) < MaxBlocks
    /\ sessions' = Append(sessions, "open")
    /\ session' = Len(sessions) + 1
    /\ blocks' = [blocks EXCEPT !.depth = @ + 1,
                                !.overlap = @ \/ blocks.depth > 0]
    /\ UNCHANGED <<client, scenario, upstream, query, calls, fetch, tokens,
                   tokensConsumed, guarded, window>>

\* variant: the session is closed only when the body did not raise
ExitClose_OnlyOnSuccess(raised) ==
    /\ blocks.depth > blocks.closing
    /\ IF session = 0
       THEN /\ blocks' = [blocks EXCEPT !.depth = @ - 1, !.crashed = TRUE,
                                        !.raised = @ \/ raised]
            /\ UNCHANGED sessions
       ELSE /\ sessions' = IF raised THEN sessions
                           ELSE [sessions EXCEPT ![session] = "closed"]
            /\ blocks' = [blocks EXCEPT !.closing = @ + 1,
                                        !.raised = @ \/ raised]
    /\ UNCHANGED <<client, scenario, upstream, query, calls, fetch, tokens,
                   tokensConsumed, session, guarded, window>>

\* the block is left, its body having raised or not: __aexit__(*err) runs
\* up to `await self._session.close()`, which closes the session _session
\* holds and suspends; with _session None the attribute access raises
ExitClose(raised) ==
    /\ blocks.depth > blocks.closing
    /\ IF session = 0
       THEN /\ blocks' = [blocks EXCEPT !.depth = @ - 1, !.crashed = TRUE,
                                        !.raised = @ \/ raised]
            /\ UNCHANGED sessions
       ELSE /\ sessions' = [sessions EXCEPT ![session] = "closed"]
            /\ blocks' = [blocks EXCEPT !.closing = @ + 1,
                                        !.raised = @ \/ raised]
    /\ UNCHANGED <<client, scenario, upstream, query, calls, fetch, tokens,
                   tokensConsumed, session, guarded, window>>

\* close() has returned: self._session = None
ExitClear ==
    /\ blocks.closing > 0
    /\ session' = 0
    /\ blocks' = [blocks EXCEPT !.closing = @ - 1, !.depth = @ - 1]
    /\ UNCHANGED <<client, scenario, upstream, query, calls, fetch, tokens,
                   tokensConsumed, sessions, guarded, window>>

(* --------------------------- specification ---------------------------- *)
\* page sizes and collection sizes tried: small ones, and two and a half
\* pages of the facades' size (250 items in pages of 100)
Inputs ==
    {[size |-> s, total |-> t] : s \in 1..MaxPageSize, t \in 0..MaxTotal}
      \cup {[size  |-> FACADE_PAGE_SIZE,
              total |-> 2 * FACADE_PAGE_SIZE + FACADE_PAGE_SIZE \div 2]}

IdleFetch ==
    [pc |-> "idle", total_pages |-> 0, tasks |-> 0, responses |-> <<>>,
     result |-> <<>>, error |-> NoError, url |-> 0]

\* the query dict a facade builds before calling _get_paginated, and the one
\* get_all_pages_in_space builds for its first request
FacadeQuery(sc, size) ==
    CASE sc = "jira"   -> [startAt |-> 0, maxResults |-> size]
      [] sc = "gitlab" -> [page |-> 1, per_page |-> size]
      [] sc = "confluence" ->
           [status |-> "current", body_format |-> "storage", limit |-> 250]
      [] sc \in UpsertScenarios -> [u \in UpsertsIn(sc) |-> <<>>]
      [] sc = "changelogs" -> [t \in Tickets |-> <<>>]
      [] OTHER         -> <<>>

\* one call of each guarded operation, all of them taking place at once
OneCallEach == {<<op, 1>> : op \in GuardedOps}

\* calls of _get_paginated taking place at once
Waiters == {<<"_get_paginated", n>> : n \in 1..MaxGuarded}

\* the scenarios that page through an upstream collection
Paged == {"jira", "gitlab"}

\* the program right after its clients are constructed, in one of the
\* scenarios given
InitIn(scenarios) ==
    /\ scenario \in scenarios
    /\ \E in \in Inputs :
         /\ upstream \in
              CASE scenario = "confluence" ->
                     {[total |-> in.total, size |-> in.size]}
                [] scenario = "gitlab" ->
                     {[total |-> in.total, header |-> h] : h \in HeaderKinds}
                [] scenario = "jira" -> {[total |-> in.total]}
                [] scenario = "changelogs" ->
                     {[t \in Tickets |-> [total |-> ChangelogTotal(t)]]}
                [] scenario \in UpsertScenarios ->
                     {[exists |-> FALSE, version |-> 0]}
                       \cup {[exists |-> TRUE, version |-> v] :
                                v \in 1..MaxVersion}
                [] OTHER -> {[total |-> 0]}
         /\ query = FacadeQuery(scenario,
                                IF scenario \in Paged THEN in.size ELSE 0)
    /\ calls = CASE scenario \in {"direct", "shared"} ->
                      [c \in 0..(MaxDirect - 1) |-> IdleCall]
                 [] scenario = "scoped" -> (0 :> IdleCall)
                 [] OTHER               -> <<>>
    /\ fetch = CASE scenario \in UpsertScenarios ->
                      [u \in UpsertsIn(scenario) |-> IdleUpsert]
                 [] scenario = "changelogs" ->
                      [t \in {0} \cup Tickets |->
                         IF t = 0 THEN [finished |-> <<>>] @@ IdleFetch
                         ELSE IdleFetch]
                 [] OTHER -> IdleFetch
    /\ tokens = [b \in Buckets |-> LIMIT_REQUESTS_CAPACITY]
    /\ tokensConsumed = 0
    /\ session = 0
    /\ sessions = <<>>
    /\ blocks = IdleBlocks
    /\ guarded = CASE scenario = "limiter" -> [g \in OneCallEach |-> IdleGuarded]
                   [] scenario = "waiters" -> [g \in Waiters |-> IdleGuarded]
                   [] OTHER                -> <<>>
    /\ window = [b \in Buckets |-> FullWindow]
    /\ client = IF scenario = "construct" THEN NoClient
                ELSE HttpClientInit("http", <<>>, <<"a", ":", "/", "/", "a", "/">>)

Init == InitIn({"jira", "gitlab", "direct"})

Next ==
    \/ \E c \in DOMAIN calls : RespondOk(c)
    \/ \E c \in DOMAIN calls, err \in ErrKinds : RespondFail(c, err)
    \/ \E c \in DOMAIN calls : RetryWake(c)
    \/ JiraGetPaginated
    \/ JiraFirstPage
    \/ JiraGatherDone
    \/ GitlabGetPaginated
    \/ \E b \in Buckets : Refill(b)
    \/ GitlabFirstPage
    \/ GitlabGatherDone
    \/ FirstPageFail
    \/ \E i \in DOMAIN calls : GatherFail(i)
    \/ \E c \in DOMAIN calls, m \in AllMethods : Invoke(c, m)

Spec == Init /\ [][Next]_vars

\* one client, its scoped-usage blocks and a call made on it
InitScoped == InitIn({"scoped"})

NextScoped ==
    \/ Enter
    \/ \E raised \in BOOLEAN : ExitClose(raised)
    \/ ExitClear
    \/ \E c \in DOMAIN calls, m \in AllMethods : Invoke(c, m)
    \/ \E c \in DOMAIN calls : RespondOk(c)
    \/ \E c \in DOMAIN calls, err \in ErrKinds : RespondFail(c, err)
    \/ \E c \in DOMAIN calls : RetryWake(c)

SpecScoped == InitScoped /\ [][NextScoped]_vars

\* the same, with tenacity's backoff sleep coming to its end: the sleeping
\* call is resumed by the event loop
SpecScopedFair == SpecScoped /\ WF_vars(RetryWake(0))

\* the changelogs of several tickets fetched at once; what an attempt fails
\* with makes no difference here, and one kind of failure is followed
InitChangelogs == InitIn({"changelogs"})

NextChangelogs ==
    \/ JiraChangelogsFromTickets
    \/ \E t \in Tickets : JiraChangelogFirstPage(t)
    \/ \E t \in Tickets : JiraChangelogGatherDone(t)
    \/ \E t \in Tickets, i \in 0..MaxTickets : JiraChangelogFail(t, i)
    \/ JiraChangelogsGathered
    \/ \E t \in Tickets : JiraChangelogsFail(t)
    \/ \E c \in DOMAIN calls : RespondOk(c)
    \/ \E c \in DOMAIN calls : RespondFail(c, "ClientError")
    \/ \E c \in DOMAIN calls : RetryWake(c)

SpecChangelogs == InitChangelogs /\ [][NextChangelogs]_vars

\* the construction of a client
InitConstruct == InitIn({"construct"})

NextConstruct == \E kind \in ClientKinds : Construct(kind)

SpecConstruct == InitConstruct /\ [][NextConstruct]_vars

\* one block is entered and get/post/put calls are made inside it, all of
\* them on the session of the block
InitShared == InitIn({"shared"})

NextShared ==
    \/ blocks.depth = 0 /\ Enter
    \/ \E c \in DOMAIN calls, m \in Methods : session # 0 /\ Invoke(c, m)
    \/ \E c \in DOMAIN calls : RespondOk(c)
    \/ \E c \in DOMAIN calls, err \in ErrKinds : RespondFail(c, err)
    \/ \E c \in DOMAIN calls : RetryWake(c)

SpecShared == InitShared /\ [][NextShared]_vars

\* a traversal of the pages of a Confluence space
InitConfluence == InitIn({"confluence"})

NextConfluence ==
    \/ ConfluenceGetAllPages
    \/ ConfluencePage
    \/ ConfluenceFail
    \/ \E c \in DOMAIN calls : RespondOk(c)
    \/ \E c \in DOMAIN calls, err \in ErrKinds : RespondFail(c, err)
    \/ \E c \in DOMAIN calls : RetryWake(c)

SpecConfluence == InitConfluence /\ [][NextConfluence]_vars

\* every request gets its response or its error, every backoff sleep ends,
\* and the event loop runs every coroutine that can go on
SpecConfluenceFair == SpecConfluence /\ WF_vars(NextConfluence)

\* one call of create_or_update_page for a title
InitUpsert == InitIn({"upsert"})

NextUpsert ==
    \/ \E u \in Upserts, r \in Representations :
          ConfluenceCreateOrUpdatePage(u, r)
    \/ \E u \in Upserts : ConfluenceLookupDone(u)
    \/ \E u \in Upserts : ConfluenceVersionDone(u)
    \/ \E u \in Upserts : ConfluenceWritten(u)
    \/ \E u \in Upserts : ConfluenceTryRaises(u)
    \/ \E u \in Upserts : ConfluenceCreateRaises(u)
    \/ \E c \in DOMAIN calls : RespondOk(c)
    \/ \E c \in DOMAIN calls, err \in ErrKinds : RespondFail(c, err)
    \/ \E c \in DOMAIN calls : RetryWake(c)

SpecUpsert == InitUpsert /\ [][NextUpsert]_vars

\* the upstream refuses the attempt of call c under way, with a 4xx status
Refused(c) ==
    /\ calls[c].pc = "inflight"
    /\ ~Accepts(calls[c], calls[c].sent[calls[c].attempt])

\* two calls of create_or_update_page for one title, on one client; the
\* transport is sound here, and an attempt fails only when the upstream
\* refuses it
InitUpserts == InitIn({"upserts"})

NextUpserts ==
    \/ \E u \in BothUpserts, r \in Representations :
          ConfluenceCreateOrUpdatePage(u, r)
    \/ \E u \in BothUpserts : ConfluenceLookupDone(u)
    \/ \E u \in BothUpserts : ConfluenceVersionDone(u)
    \/ \E u \in BothUpserts : ConfluenceWritten(u)
    \/ \E u \in BothUpserts : ConfluenceTryRaises(u)
    \/ \E u \in BothUpserts : ConfluenceCreateRaises(u)
    \/ \E c \in DOMAIN calls : RespondOk(c)
    \/ \E c \in DOMAIN calls : Refused(c) /\ RespondFail(c, "ClientError")
    \/ \E c \in DOMAIN calls : RetryWake(c)

SpecUpserts == InitUpserts /\ [][NextUpserts]_vars

\* the rate limiter under calls of the guarded operations, one call of each
\* operation at a time
InitLimiter == InitIn({"limiter"})

NextLimiter ==
    \/ \E g \in DOMAIN guarded : GuardedCall(g)
    \/ \E g \in DOMAIN guarded : GuardedAcquire(g)
    \/ \E g \in DOMAIN guarded : GuardedReturn(g)
    \/ \E b \in Buckets : Refill(b)

SpecLimiter == InitLimiter /\ [][NextLimiter]_vars

\* The waiting at the empty bucket, followed on calls of _get_paginated.
\* Time goes on, so the bucket keeps refilling; the event loop wakes every
\* sleeping call when its sleep is over, so a call gets its token if the
\* bucket keeps holding one (the limiter has no queue: nothing reserves a
\* token for the call that waited longest); a running call comes to its end.
\* How often the program makes new calls is up to the program.
InitWaiters == InitIn({"waiters"})

SpecWaitersFair ==
    /\ InitWaiters
    /\ [][NextLimiter]_vars
    /\ \A b \in Buckets : WF_vars(Refill(b))
    /\ \A g \in Waiters : WF_vars(GuardedAcquire(g))
    /\ \A g \in Waiters : WF_vars(GuardedReturn(g))

(* ------------------ vocabulary of the properties ---------------------- *)
\* page size of the fetch under way
PageSize ==
    CASE scenario = "jira"       -> query.maxResults
      [] scenario = "confluence" -> upstream.size
      [] OTHER                   -> query.per_page

\* number of pages the upstream collection has (an empty one has one, empty)
UpstreamPages == Max(1, Ceil(upstream.total, PageSize))

\* the items of page k of the upstream collection, k = 1, 2, ...
UpstreamPage(k) ==
    Items((k - 1) * PageSize + 1, Min(k * PageSize, upstream.total))

\* page 1's items, then page 2's items, ..., then page n's items
RECURSIVE PagesConcat(_)
PagesConcat(n) ==
    IF n = 0 THEN <<>> ELSE PagesConcat(n - 1) \o UpstreamPage(n)

Paginated == scenario \in {"jira", "gitlab"}

\* the calls made for pages after the first
FanOutCalls == DOMAIN calls \ {0}

\* some attempt of some call has failed so far
SomeAttemptFailed ==
    \E c \in DOMAIN calls :
        calls[c].attempt > 1 \/ calls[c].pc \in {"sleeping", "failed"}

(* ------------------------------- C1 ----------------------------------- *)
\* C1: whenever a paginated fetch (Jira offset-parallel or GitLab
\* page-parallel) returns, what it returns is exactly page 1's items, then
\* page 2's items, ..., then page N's items of the upstream collection.
C1_ReturnsPagesInOrder ==
    (Paginated /\ fetch.pc = "returned")
        => fetch.result = PagesConcat(UpstreamPages)

(* ------------------------------- C2 ----------------------------------- *)
\* C2: in the GitLab page-parallel fetch every page request has taken its
\* own token: the number of page requests issued never exceeds the number of
\* tokens consumed.
C2_EveryPageRequestTakesAToken ==
    scenario = "gitlab"
        => Cardinality({c \in DOMAIN calls : calls[c].pc # "idle"})
               <= tokensConsumed

(* ------------------------------- C3 ----------------------------------- *)
\* C3: a get/post/put call that has failed on all its attempts hands its
\* caller the error of the last attempt itself, not wrapped in another type.
C3_LastErrorUnchanged ==
    \A c \in DOMAIN calls :
        calls[c].pc = "failed"
            => calls[c].error = [type |-> calls[c].lastErr, cause |-> "none"]

(* ------------------------------- C4 ----------------------------------- *)
\* C4: an attempt whose body fails to decode ends the call: the call is not
\* put to sleep for another attempt, it has failed with the parse error.
C4_DecodeFailureNotRetried ==
    \A c \in DOMAIN calls :
        calls[c].lastErr = "DecodeError"
            => /\ calls[c].pc = "failed"
               /\ calls[c].error.type = "DecodeError"

(* ------------------------------- C5 ----------------------------------- *)
\* C5: every get/post/put call makes at most 5 attempts; a call that has
\* returned carries no error and returns the response to its last attempt
\* (its 5th when attempts 1 to 4 failed); a call that has failed made exactly
\* 5 attempts; and a call that has returned or failed makes no further
\* attempt.
C5_Bounded ==
    \A c \in DOMAIN calls :
        /\ calls[c].attempt <= 5
        /\ Len(calls[c].sent) = calls[c].attempt
        /\ calls[c].pc = "failed" /\ calls[c].method \in Methods
               => calls[c].attempt = 5 /\ calls[c].error # NoError
        /\ calls[c].pc = "done"
               => /\ calls[c].error = NoError
                  /\ calls[c].result =
                        Returned(calls[c].method,
                                 Serve(calls[c], calls[c].sent[calls[c].attempt]))

C5_Final ==
    \A c \in DOMAIN calls :
        calls[c].pc \in {"done", "failed"} => calls'[c] = calls[c]

C5_AtMostFiveAttempts == []C5_Bounded /\ [][C5_Final]_vars

\* attempts 1 to 4 failed and attempt 5 succeeded
C5_Witness ==
    \E c \in DOMAIN calls :
        /\ calls[c].pc = "done"
        /\ calls[c].attempt = 5
        /\ calls[c].method \in {"GET", "PUT"}

(* ------------------------------- C6 ----------------------------------- *)
\* C6: once a fan-out call has finally failed the fetch never returns a
\* collection; a failed fetch holds no collection and stays failed; and the
\* step in which the fetch fails leaves every call as it was (the other
\* fan-out calls are not cancelled).
C6_NoCollection ==
    Paginated =>
        /\ (\E i \in Tasks : calls[i].pc = "failed")
               => fetch.pc # "returned" /\ fetch.result = <<>>
        /\ fetch.pc = "failed"
               => fetch.result = <<>> /\ fetch.error # NoError

C6_Step ==
    /\ fetch.pc = "failed" => fetch' = fetch
    /\ (fetch.pc = "gather" /\ fetch'.pc = "failed") => calls' = calls

C6_FailFast == []C6_NoCollection /\ [][C6_Step]_vars

\* the fetch has failed on one fan-out call while another is still in flight
C6_Witness ==
    /\ Paginated
    /\ fetch.pc = "failed"
    /\ \E i, j \in Tasks :
         calls[i].pc = "failed" /\ calls[j].pc \in {"inflight", "done"}

(* ------------------------------- C7 ----------------------------------- *)
\* C7: a fan-out request exists only after the first-page call has returned
\* and the fetch has read the total from it; a fetch whose first-page call
\* has finally failed has no fan-out request.
C7_FirstPageBeforeFanOut ==
    Paginated =>
        /\ FanOutCalls # {}
               => /\ calls[0].pc = "done"
                  /\ fetch.pc \in {"gather", "returned", "failed"}
                  /\ fetch.total_pages =
                        (IF scenario = "jira"
                         THEN Ceil(calls[0].result.content.total,
                                   query.maxResults)
                         ELSE GitlabTotalPages(calls[0].result).value)
        /\ (0 \in DOMAIN calls /\ calls[0].pc = "failed") => FanOutCalls = {}

\* fan-out requests are out, the first page is in
C7_Witness ==
    /\ Paginated
    /\ fetch.pc = "gather"
    /\ \E i \in FanOutCalls : calls[i].pc = "inflight"

(* ------------------------------- C8 ----------------------------------- *)
\* C8: in a Jira fetch in which no attempt has failed, once the first page
\* reported total T for page size P the additional requests are exactly one
\* per i in 1..ceil(T/P)-1, carrying startAt = P*i, and the fetch returns
\* the T items in upstream order.
C8_OffsetFanOut ==
    (scenario = "jira" /\ ~SomeAttemptFailed
                       /\ fetch.pc \in {"gather", "returned"})
        => LET T == calls[0].result.content.total
               P == query.maxResults
           IN  /\ FanOutCalls = 1..(Ceil(T, P) - 1)
               /\ \A i \in FanOutCalls : calls[i].sent = <<P * i>>
               /\ fetch.pc = "returned" => fetch.result = Items(1, T)

\* the documented example: P = 100, T = 250
C8_Witness ==
    /\ scenario = "jira"
    /\ ~SomeAttemptFailed
    /\ fetch.pc = "returned"
    /\ query.maxResults = 100
    /\ calls[0].result.content.total = 250
    /\ {calls[i].sent : i \in FanOutCalls} = {<<100>>, <<200>>}
    /\ Len(fetch.result) = 250

(* ------------------------------- C9 ----------------------------------- *)
\* C9: in a GitLab fetch in which no attempt has failed, once the first
\* page carried x-total-pages = K the requests made are exactly one per page
\* number 1..K, page 1 being back before the others exist; with K = 1 the
\* fetch has returned on its single request.
C9_PageFanOut ==
    (scenario = "gitlab" /\ ~SomeAttemptFailed
                         /\ fetch.pc \in {"gather", "returned"})
        => LET K == GitlabTotalPages(calls[0].result).value
           IN  /\ DOMAIN calls = 0..(K - 1)
               /\ \A c \in DOMAIN calls : calls[c].sent = <<c + 1>>
               /\ calls[0].pc = "done"
               /\ K = 1 => fetch.pc = "returned"

\* three pages, three requests, all back
C9_Witness ==
    /\ scenario = "gitlab"
    /\ ~SomeAttemptFailed
    /\ fetch.pc = "returned"
    /\ GitlabTotalPages(calls[0].result).value = 3
    /\ DOMAIN calls = 0..2

(* ------------------------------- C10 ---------------------------------- *)
\* C10: in a Jira fetch whose first page reports total = 0, or for which
\* ceil(total / maxResults) <= 1, the first-page request is the only request
\* ever made and what the fetch returns is the first page's items (nothing
\* at all when total = 0).
C10_NoFanOut ==
    (scenario = "jira" /\ 0 \in DOMAIN calls /\ calls[0].pc = "done"
       /\ (calls[0].result.content.total = 0
             \/ Ceil(calls[0].result.content.total, query.maxResults) <= 1))
        => /\ DOMAIN calls = {0}
           /\ fetch.pc = "returned"
                => /\ fetch.result = calls[0].result.content.values
                   /\ calls[0].result.content.total = 0 => fetch.result = <<>>

\* an empty collection fetched with one request
C10_Witness ==
    /\ scenario = "jira"
    /\ fetch.pc = "returned"
    /\ calls[0].result.content.total = 0
    /\ DOMAIN calls = {0}
    /\ fetch.result = <<>>

(* ------------------------------- C11 ---------------------------------- *)
\* the sessions created by __aenter__ that are open
OpenSessions == {i \in DOMAIN sessions : sessions[i] = "open"}

\* C11: whatever blocks were entered and left on the client, nested or
\* overlapping ones included, at most one session created by an entry is
\* open, and once every block has been left no session created by an entry
\* is still open.
C11_OneSessionNoneOrphaned ==
    /\ Cardinality(OpenSessions) <= 1
    /\ blocks.depth = 0 => OpenSessions = {}

(* ------------------------------- C12 ---------------------------------- *)
\* C12: as long as no block was entered inside another, a block that is
\* open and not exiting holds the open session its entry created, and once
\* the block has been left, by its body completing or raising, every
\* session created by an entry is closed, the client holds no session and
\* no exit raised.
C12_SingleBlockClosesSession ==
    (scenario = "scoped" /\ ~blocks.overlap)
        => /\ (blocks.depth = 1 /\ blocks.closing = 0)
                => /\ session = Len(sessions)
                   /\ session \in OpenSessions
           /\ blocks.depth = 0
                => /\ OpenSessions = {}
                   /\ session = 0
                   /\ ~blocks.crashed

\* one block, entered and left by an exception of its body
C12_Witness ==
    /\ scenario = "scoped"
    /\ Len(sessions) = 1
    /\ blocks.depth = 0
    /\ blocks.raised
    /\ sessions[1] = "closed"
    /\ session = 0

(* ------------------------------- C13 ---------------------------------- *)
\* the client holds a session that is open
HasOpenSession == session # 0 /\ session \in OpenSessions

\* call c starts an attempt in this step
AttemptStarts(c) ==
    /\ c \in DOMAIN calls'
    /\ calls'[c].attempt = calls[c].attempt + 1

C13_NoTempLeft ==
    \A c \in DOMAIN calls :
        /\ calls[c].pc # "inflight" => calls[c].temp # "open"
        /\ calls[c].via = "shared" => calls[c].temp = "none"

C13_Step ==
    \A c \in DOMAIN calls :
        AttemptStarts(c)
            => IF HasOpenSession
               THEN /\ calls'[c].via = "shared"
                    /\ calls'[c].sid = session
                    /\ calls'[c].temp = "none"
               ELSE /\ calls'[c].via = "temp"
                    /\ calls'[c].temp = "open"

\* C13: an attempt of get/post/put/delete that starts while the client has
\* no open session runs on a temporary session of its own, which is closed
\* by the time the attempt has returned or raised; an attempt that starts
\* while the client's session is open runs on that session and opens no
\* temporary one.
C13_SessionOfAttempt == []C13_NoTempLeft /\ [][C13_Step]_vars

(* ------------------------------- C14 ---------------------------------- *)
\* the response to request k of the traversal carries a "next" link
HasNext(k) == ConfluenceNextUrl(calls[k].result.content) # 0

C14_ExactlyNRequests ==
    scenario = "confluence"
        => /\ DOMAIN calls \subseteq 1..UpstreamPages
           /\ fetch.pc = "page"
                => \A k \in 1..(fetch.tasks - 1) : HasNext(k)
           /\ fetch.pc = "returned"
                => /\ DOMAIN calls = 1..UpstreamPages
                   /\ ~HasNext(UpstreamPages)
                   /\ fetch.result = PagesConcat(UpstreamPages)

\* C14: a traversal of a space whose upstream serves N >= 1 pages, all but
\* the last linking to the next, never makes more than N requests; it goes on
\* exactly as long as the responses carry a next link; when it returns it
\* has made exactly N requests and returns the items of pages 1..N in
\* order; and every traversal under way ends, by returning or by the error
\* of a request.
C14_TraversalTerminates ==
    /\ []C14_ExactlyNRequests
    /\ (scenario = "confluence" /\ fetch.pc = "page")
           ~> (fetch.pc \in {"returned", "failed"})

\* three pages fetched with three requests, none of which failed
C14_Witness ==
    /\ scenario = "confluence"
    /\ fetch.pc = "returned"
    /\ UpstreamPages = 3
    /\ ~SomeAttemptFailed
    /\ Len(fetch.result) = upstream.total

PendingRequests ==
    {k \in DOMAIN calls : calls[k].pc \in {"inflight", "sleeping"}}

\* C16: in a traversal at most one page request is pending at any time, and
\* a request for page k + 1 exists only when the response to the request for
\* page k has been received.
C16_OneRequestAtATime ==
    scenario = "confluence"
        => /\ Cardinality(PendingRequests) <= 1
           /\ \A k \in DOMAIN calls : k > 1 => calls[k - 1].pc = "done"

\* the second page is being requested, the first has been received
C16_Witness ==
    /\ scenario = "confluence"
    /\ DOMAIN calls = {1, 2}
    /\ calls[2].pc = "inflight"
    /\ calls[1].pc = "done"

(* ------------------------------- C17 ---------------------------------- *)
\* call g starts in this step: the limiter lets it into its body
Starts(g) == guarded[g].pc # "running" /\ guarded'[g].pc = "running"

\* call g is made in this step
Called(g) == guarded[g].pc = "idle" /\ guarded'[g].pc # "idle"

\* ticks token periods last ticks / LIMIT_REQUESTS_RATE seconds, less than
\* LIMIT_REQUESTS_CAPACITY / LIMIT_REQUESTS_RATE seconds
ShorterThanFullRefill(ticks) ==
    ticks * LIMIT_REQUESTS_RATE < LIMIT_REQUESTS_CAPACITY * LIMIT_REQUESTS_RATE

\* a call starts only on a token of its bucket, and a call made while the
\* bucket is empty waits
C17_BeyondBudgetWaits ==
    \A g \in DOMAIN guarded :
        /\ Starts(g) => tokens[LimiterBucket(g[1])] >= LimiterConsume
        /\ (Called(g) /\ tokens[LimiterBucket(g[1])] < LimiterConsume)
              => guarded'[g].pc = "waiting"

C17_AtMostCapacity ==
    \A b \in Buckets :
        (window[b].open /\ ShorterThanFullRefill(window[b].ticks))
            => window[b].started <= LIMIT_REQUESTS_CAPACITY

\* C17 as stated: in any window shorter than capacity / rate seconds that
\* begins with the bucket full, at most capacity guarded operations start,
\* and operations beyond that wait for the refill.
C17_AtMostCapacityInWindow ==
    []C17_AtMostCapacity /\ [][C17_BeyondBudgetWaits]_vars

C17_AtMostCapacityPlusRefill ==
    \A b \in Buckets :
        window[b].open
            => window[b].started <= LIMIT_REQUESTS_CAPACITY + window[b].ticks

\* C17, amended: in any window of t seconds that begins with the bucket
\* full, at most capacity + rate * t guarded operations start (ticks token
\* periods are rate * t), and operations beyond that wait for the refill.
C17_AtMostCapacityPlusRefillInWindow ==
    []C17_AtMostCapacityPlusRefill /\ [][C17_BeyondBudgetWaits]_vars

\* capacity + 1 operations started within one token period of the bucket
\* being full, and a further call waits
C17_Witness ==
    /\ scenario = "limiter"
    /\ \E b \in Buckets :
         /\ window[b].open
         /\ window[b].ticks = 1
         /\ window[b].started = LIMIT_REQUESTS_CAPACITY + 1
    /\ \E g \in DOMAIN guarded : guarded[g].pc = "waiting"

(* ------------------------------- C18 ---------------------------------- *)
C18_Full == \A b \in Buckets : tokens[b] = LIMIT_REQUESTS_CAPACITY

C18_Range ==
    \A b \in Buckets : tokens[b] \in 0..LIMIT_REQUESTS_CAPACITY

\* the calls that start in this step on a token of bucket b
StartingOn(b) ==
    {g \in DOMAIN guarded : Starts(g) /\ LimiterBucket(g[1]) = b}

C18_OneTokenEach ==
    \A b \in Buckets :
        /\ Cardinality(StartingOn(b)) <= 1
        /\ StartingOn(b) # {}
              => /\ tokens[b] >= LimiterConsume
                 /\ tokens'[b] = tokens[b] - 1
        /\ tokens'[b] < tokens[b] => StartingOn(b) # {}

\* C18: the bucket starts with capacity tokens and always holds between 0
\* and capacity tokens; a guarded call starts only in a step that takes
\* exactly one token out of a bucket that had one, no step lets two calls
\* start, and no token leaves the bucket without a call starting.
C18_TokenPerStart ==
    C18_Full /\ []C18_Range /\ [][C18_OneTokenEach]_vars

\* the bucket is empty, one call runs on a token it took and another waits
C18_Witness ==
    /\ scenario = "limiter"
    /\ \A b \in Buckets : tokens[b] = 0
    /\ \E g, h \in DOMAIN guarded :
         guarded[g].pc = "running" /\ guarded[h].pc = "waiting"

(* ------------------------------- C19 ---------------------------------- *)
\* while a call waits for a token, every running call can come to its end
C19_NoBlocking ==
    \A g, h \in DOMAIN guarded :
        (guarded[g].pc = "waiting" /\ guarded[h].pc = "running")
            => ENABLED GuardedReturn(h)

\* C19: a guarded call that finds the bucket empty waits without keeping
\* the running calls from going on, and, the bucket being refilled again and
\* again, every waiting call gets a token and starts in the end.
C19_WaitersStart ==
    /\ []C19_NoBlocking
    /\ \A g \in Waiters :
          (g \in DOMAIN guarded /\ guarded[g].pc = "waiting")
              ~> (guarded[g].pc = "running")

(* ------------------------------- C20 ---------------------------------- *)
C20_OneBucket == Cardinality(DOMAIN tokens) = 1

C20_SameBucket ==
    \E b \in DOMAIN tokens :
        \A g \in DOMAIN guarded :
            Starts(g) => tokens'[b] = tokens[b] - LimiterConsume

\* C20: the limiter has one bucket, and a call of any of the guarded
\* operations (_get_paginated, changes_from_merge_request, pipeline,
\* approvals_from_merge_request) that starts takes its token from that
\* bucket.
C20_OneSharedBucket == []C20_OneBucket /\ [][C20_SameBucket]_vars

\* calls of two different operations run at the same time, both on tokens
\* of the one bucket
C20_Witness ==
    /\ scenario = "limiter"
    /\ guarded[<<"pipeline", 1>>].pc = "running"
    /\ guarded[<<"approvals_from_merge_request", 1>>].pc = "running"
    /\ guarded[<<"changes_from_merge_request", 1>>].pc = "idle"
    /\ guarded[<<"_get_paginated", 1>>].pc = "idle"
    /\ \A b \in DOMAIN tokens :
         /\ window[b].started = 2
         /\ tokens[b] = LIMIT_REQUESTS_CAPACITY - 2

(* ------------------------------- C21 ---------------------------------- *)
\* the x-total-pages header of the response is absent or is not a number
HeaderUnreadable(response) ==
    \/ "x_total_pages" \notin DOMAIN response.headers
    \/ ~IsNumeral(response.headers.x_total_pages)

\* the first response of the GitLab fetch is back with such a header
FirstHeaderUnreadable ==
    /\ scenario = "gitlab"
    /\ 0 \in DOMAIN calls
    /\ calls[0].pc = "done"
    /\ HeaderUnreadable(calls[0].result)

C21_NoDefaultNoFanOut ==
    FirstHeaderUnreadable
        => /\ fetch.pc \in {"first", "failed"}
           /\ fetch.pc = "first" => ENABLED GitlabFirstPage
           /\ fetch.pc = "failed"
                => fetch.error \in {[type |-> "KeyError", cause |-> "none"],
                                    [type |-> "ValueError", cause |-> "none"]}
           /\ fetch.total_pages = 0
           /\ fetch.result = <<>>
           /\ DOMAIN calls = {0}

C21_Step ==
    FirstHeaderUnreadable
        => /\ calls' = calls
           /\ fetch' # fetch => fetch.pc = "first" /\ fetch'.pc = "failed"

\* C21: in the GitLab page-parallel fetch, when the first response's
\* x-total-pages header is absent or not a number the fetch fails with the
\* error of reading the header (KeyError or ValueError): it never returns a
\* collection and assumes no page count, the first-page call makes no
\* further attempt, and no fan-out request is issued.
C21_UnreadableHeaderIsFatal ==
    []C21_NoDefaultNoFanOut /\ [][C21_Step]_vars

\* a collection of several pages whose first response carries a header that
\* is not a number: the fetch has failed on its one request
C21_Witness ==
    /\ scenario = "gitlab"
    /\ upstream.total > query.per_page
    /\ upstream.header = "word"
    /\ fetch.pc = "failed"
    /\ fetch.error.type = "ValueError"
    /\ calls[0].pc = "done"
    /\ DOMAIN calls = {0}

(* ------------------------------- C22 ---------------------------------- *)
\* call u of create_or_update_page has made its call for k
Made(u, k) == <<u, k>> \in DOMAIN calls

\* the title lookup of call u has returned, with no page / with a page
LookupNotFound(u) ==
    /\ Made(u, "lookup")
    /\ calls[<<u, "lookup">>].pc = "done"
    /\ calls[<<u, "lookup">>].result.content.results = <<>>

LookupFound(u) ==
    /\ Made(u, "lookup")
    /\ calls[<<u, "lookup">>].pc = "done"
    /\ calls[<<u, "lookup">>].result.content.results # <<>>

\* the requests of call u that went out with method m
RequestsOf(u, m) ==
    {<<c, a>> \in (DOMAIN calls) \X (1..MAX_ATTEMPTS) :
        c[1] = u /\ calls[c].method = m /\ a <= calls[c].attempt}

\* C22: a call of create_or_update_page has made a POST if and only if its
\* title lookup returned no page and has been acted on, and then it made one
\* POST call and no PUT; once the lookup returned a page no POST is ever
\* made, the one PUT call carries on every attempt the version read plus
\* one, and a call that returned without a failed attempt sent exactly one
\* PUT request; when the lookup, the version read or the update has failed
\* for good, the call fails with that error and has made no POST.
C22_CreateOnlyWhenNotFound ==
    scenario = "upsert" =>
      \A u \in DOMAIN fetch :
        /\ Made(u, "create")
             <=> (LookupNotFound(u) /\ fetch[u].pc # "lookup")
        /\ Made(u, "create")
             => /\ calls[<<u, "create">>].method = "POST"
                /\ ~Made(u, "version") /\ ~Made(u, "update")
                /\ RequestsOf(u, "PUT") = {}
        /\ LookupFound(u)
             => /\ RequestsOf(u, "POST") = {}
                /\ Made(u, "update")
                     => /\ calls[<<u, "update">>].method = "PUT"
                        /\ calls[<<u, "version">>].pc = "done"
                        /\ \A a \in 1..calls[<<u, "update">>].attempt :
                             calls[<<u, "update">>].sent[a].body.version =
                               calls[<<u, "version">>].result.content
                                   .version.number + 1
                /\ fetch[u].pc = "returned"
                     => /\ Made(u, "update")
                        /\ calls[<<u, "update">>].pc = "done"
                        /\ ~SomeAttemptFailed
                             => Cardinality(RequestsOf(u, "PUT")) = 1
        /\ \A k \in {"lookup", "version", "update"} :
             (Made(u, k) /\ calls[<<u, k>>].pc = "failed" /\ fetch[u].pc # k)
                => /\ fetch[u].pc = "failed"
                   /\ fetch[u].error = calls[<<u, k>>].error
                   /\ RequestsOf(u, "POST") = {}

\* a page at version 2 was found and updated with version 3, the update
\* having gone through on its second attempt
C22_Witness ==
    /\ scenario = "upsert"
    /\ fetch[1].pc = "returned"
    /\ LookupFound(1)
    /\ calls[<<1, "version">>].result.content.version.number = 2
    /\ calls[<<1, "update">>].attempt = 2
    /\ calls[<<1, "update">>].sent[2].body.version = 3
    /\ upstream.version = 3

(* ------------------------------- C23 ---------------------------------- *)
\* the calls of delete
Deletes == {c \in DOMAIN calls : calls[c].method = "DELETE"}

C23_OneAttempt ==
    \A c \in Deletes :
        /\ calls[c].attempt = 1
        /\ Len(calls[c].sent) = 1
        /\ calls[c].pc \in {"inflight", "done", "failed"}
        /\ calls[c].pc = "failed"
              => calls[c].error = [type |-> calls[c].lastErr, cause |-> "none"]

C23_Step ==
    \A c \in Deletes :
        /\ calls'[c] # calls[c]
              => calls[c].pc = "inflight" /\ calls'[c].pc \in {"done", "failed"}
        /\ calls'[c].pc = "failed" => calls'[c].sent = calls[c].sent

\* C23: a call of delete makes exactly one attempt; the step in which that
\* attempt fails is the step in which the call fails, with the failure
\* itself as its error and with no further DELETE request, and a delete that
\* has returned or failed does nothing more.
C23_DeleteNotRetried == []C23_OneAttempt /\ [][C23_Step]_vars

\* a delete has failed on its only attempt while a get made beside it is
\* waiting for its next attempt
C23_Witness ==
    \E c, d \in DOMAIN calls :
        /\ calls[c].method = "DELETE"
        /\ calls[c].pc = "failed"
        /\ calls[c].attempt = 1
        /\ calls[d].method = "GET"
        /\ calls[d].pc = "sleeping"

(* ------------------------------- C24 ---------------------------------- *)
\* the response the upstream gave to attempt a of call c
ResponseTo(c, a) == Serve(calls[c], calls[c].sent[a])

\* C24: a get that has returned returns the headers and the body of the
\* response to its own last attempt, a post or put that has returned returns
\* the body of the response to its own last attempt, and, with calls under
\* way at the same time on one session, what a call returns is not the
\* response to any attempt of another call.
C24_OwnResponse ==
    \A c \in DOMAIN calls :
        (calls[c].pc = "done" /\ calls[c].method \in Methods)
            => /\ calls[c].result.content
                     = ResponseTo(c, calls[c].attempt).content
               /\ calls[c].method = "GET"
                     => calls[c].result.headers
                            = ResponseTo(c, calls[c].attempt).headers
               /\ \A d \in DOMAIN calls \ {c} :
                     \A a \in 1..calls[d].attempt :
                        /\ calls[c].result.content # ResponseTo(d, a).content
                        /\ calls[c].result.headers # ResponseTo(d, a).headers

\* a get has returned on its second attempt while a post, made on the same
\* session, is still in flight
C24_Witness ==
    /\ scenario = "shared"
    /\ \E c, d \in DOMAIN calls :
         /\ calls[c].method = "GET"
         /\ calls[c].pc = "done"
         /\ calls[c].attempt = 2
         /\ calls[d].method = "POST"
         /\ calls[d].pc = "inflight"
         /\ calls[c].via = "shared"
         /\ calls[d].via = "shared"
         /\ calls[c].sid = calls[d].sid

(* ------------------------------- C25 ---------------------------------- *)
\* no session exists and no request was made
NothingStarted ==
    /\ session = 0
    /\ sessions = <<>>
    /\ DOMAIN calls = {}

\* text.rfind(ch): the last position of ch in text, 0 when there is none
RFind(text, ch) ==
    IF \E i \in 1..Len(text) : text[i] = ch
    THEN CHOOSE i \in 1..Len(text) :
            text[i] = ch /\ \A j \in (i + 1)..Len(text) : text[j] # ch
    ELSE 0

\* SplitResult.hostname: the netloc after its last "@", up to the first ":"
\* (<<>> stands for None)
UrlHostname(url) ==
    LET netloc   == UrlNetloc(url)
        hostinfo == SubSeq(netloc, RFind(netloc, "@") + 1, Len(netloc))
        colon    == Find(hostinfo, ":")
    IN  IF colon = 0 THEN hostinfo ELSE SubSeq(hostinfo, 1, colon - 1)

\* the base address is empty, or has no scheme, or has no host
MalformedUrl(url) ==
    \/ url = <<>>
    \/ UrlScheme(url) = <<>>
    \/ UrlHostname(url) = <<>>

\* C25: when HttpClient, JiraClient, GitlabClient or ConfluenceClient has
\* been constructed with a base address that is empty or has no scheme or
\* no host, the constructor raised ValueError and there is no client, and no
\* session exists and no request was made.
C25_MalformedUrlRejected ==
    (scenario = "construct" /\ client.state # "none"
                            /\ MalformedUrl(client.args.url))
        => /\ client.state = "raised"
           /\ client.error.type = "ValueError"
           /\ NothingStarted

(* ------------------------------- C26 ---------------------------------- *)
\* the credentials a service client of the given kind is constructed with:
\* the token for GitLab, the username and the password for the others
CredentialsOf(kind, args) ==
    IF kind = "gitlab" THEN {args.username}
    ELSE {args.username, args.password}

\* C26: when JiraClient, GitlabClient or ConfluenceClient has been
\* constructed with an empty credential (GitLab token, Jira or Confluence
\* username or password), the constructor raised ValueError and there is no
\* client, and no session exists and no request was made.
C26_EmptyCredentialRejected ==
    (scenario = "construct" /\ client.state # "none"
                            /\ client.kind # "http"
                            /\ <<>> \in CredentialsOf(client.kind, client.args))
        => /\ client.state = "raised"
           /\ client.error.type = "ValueError"
           /\ NothingStarted

\* JiraClient was constructed with a well-formed address, a username and an
\* empty password: the constructor raised
C26_Witness ==
    /\ scenario = "construct"
    /\ client.state = "raised"
    /\ client.kind = "jira"
    /\ client.args.url = <<"a", ":", "/", "/", "a">>
    /\ client.args.username # <<>>
    /\ client.args.password = <<>>

(* ------------------------------- C27 ---------------------------------- *)
\* C27: every attempt of a fan-out call of a paginated fetch, retries
\* included, carries the startAt (Jira) or page (GitLab) value that the call
\* was made for.
C27_AttemptsCarryOwnPage ==
    Paginated =>
        \A i \in FanOutCalls :
            \A a \in 1..calls[i].attempt : calls[i].sent[a] = calls[i].arg

(* ------------------------------- C28 ---------------------------------- *)
\* the calls of get, post and put
Retried == {c \in DOMAIN calls : calls[c].method \in Methods}

C28_OwnCount ==
    \A c \in Retried :
        /\ calls[c].attempt \in 1..MAX_ATTEMPTS
        /\ calls[c].attempt = Len(calls[c].sent)
        /\ calls[c].pc = "sleeping"
              => calls[c].attempt < MAX_ATTEMPTS /\ ENABLED RetryWake(c)
        /\ calls[c].pc = "failed" => calls[c].attempt = MAX_ATTEMPTS

C28_Step ==
    \A c \in DOMAIN calls :
        calls'[c] # calls[c]
            => /\ \A d \in DOMAIN calls \ {c} : calls'[d] = calls[d]
               /\ calls'[c].attempt = IF calls[c].pc \in {"idle", "sleeping"}
                                      THEN calls[c].attempt + 1
                                      ELSE calls[c].attempt
               /\ calls[c].pc = "idle" => calls'[c].attempt = 1

\* C28: with get/post/put calls under way at once on one client, the attempt
\* number of a call is the number of attempts that call itself has made,
\* from 1 up to 5; a call gives up only after its own 5th attempt, and a
\* call whose attempt failed earlier can always make its next one, whatever
\* happened to other calls; a step of one call changes no other call; and a
\* call that is made starts at attempt 1, also after other calls have
\* returned or given up.
C28_RetryStatePerCall == []C28_OwnCount /\ [][C28_Step]_vars

\* one get has given up after 5 attempts, another get on the same client is
\* on its first attempt
C28_Witness ==
    /\ scenario = "direct"
    /\ \E c, d \in DOMAIN calls :
         /\ calls[c].method = "GET" /\ calls[d].method = "GET"
         /\ calls[c].pc = "failed" /\ calls[c].attempt = MAX_ATTEMPTS
         /\ calls[d].pc = "inflight" /\ calls[d].attempt = 1

(* ------------------------------- C29 ---------------------------------- *)
\* the calls made by the fetch of ticket t
CallsOf(t) == {c \in DOMAIN calls : c[1] = t}

\* the startAt values the fetch of ticket t writes into its query: 0 when
\* changelogs builds it, then one per further page of its changelog
OwnStartAts(t) ==
    {0} \cup {k * FACADE_PAGE_SIZE :
                 k \in 1..(Ceil(ChangelogTotal(t), FACADE_PAGE_SIZE) - 1)}

C29_OwnQueryOwnPages ==
    scenario = "changelogs" =>
      \A t \in Tickets :
        /\ \A c \in CallsOf(t) :
              /\ calls[c].owner = t
              /\ \A a \in 1..calls[c].attempt :
                    calls[c].sent[a] \in OwnStartAts(t)
              /\ calls[c].pc = "done"
                    => \A n \in 1..Len(calls[c].result.content.values) :
                          calls[c].result.content.values[n][1] = t
        /\ fetch[t].pc = "returned"
              => /\ Len(fetch[t].result) > 0
                 /\ \A n \in 1..Len(fetch[t].result) : fetch[t].result[n][1] = t

\* a step in which the fetch of one ticket writes its query leaves the
\* queries of the other fetches as they were
C29_Step ==
    (scenario = "changelogs" /\ fetch[0].pc # "idle") =>
      \A t \in Tickets :
        query'[t] # query[t]
            => /\ fetch'[t] # fetch[t]
               /\ \A u \in Tickets \ {t} : query'[u] = query[u]

\* C29: with the changelogs of several tickets fetched at once on one
\* client, every fetch has a query of its own; every request of a fetch,
\* retries included, carries a startAt that this fetch wrote into its own
\* query, never one that only another fetch wrote; a fetch that writes its
\* query leaves the queries of the others alone; and every fetch gets and
\* returns items of its own ticket's changelog only.
C29_FetchesIndependent == []C29_OwnQueryOwnPages /\ [][C29_Step]_vars

\* the fetch of ticket 2 has written startAt = 100 into its query and has
\* returned; the fetch of ticket 1, whose first page was retried after that,
\* has returned too
C29_Witness ==
    /\ scenario = "changelogs"
    /\ fetch[1].pc = "returned"
    /\ fetch[2].pc = "returned"
    /\ query[2].startAt = FACADE_PAGE_SIZE
    /\ query[1].startAt = 0
    /\ calls[<<1, 0>>].attempt = 2
    /\ calls[<<2, 1>>].attempt = 2
    /\ Len(fetch[2].result) = ChangelogTotal(2)

(* ------------------------------- C30 ---------------------------------- *)
\* the session the attempt of call c, issued in this step, is issued on is
\* open when it is issued
IssuedOnOpenSession(c) ==
    IF calls'[c].via = "shared"
    THEN /\ calls'[c].sid \in DOMAIN sessions
         /\ sessions[calls'[c].sid] = "open"
    ELSE calls'[c].temp = "open"

C30_Step == \A c \in DOMAIN calls : AttemptStarts(c) => IssuedOnOpenSession(c)

\* C30: however calls, retries and the leaving of scoped-usage blocks
\* interleave, every attempt, first or retried, is issued on a session that
\* is open at that moment, never on one that has been closed.
C30_NoAttemptOnClosedSession == [][C30_Step]_vars

(* ------------------------------- C31 ---------------------------------- *)
\* call c was started in a scoped-usage block, on that block's session
StartedInBlock(c) == calls[c].attempt > 0 /\ calls[c].began # 0

\* ... and that session has been closed since
OwnBlockClosed(c) ==
    /\ StartedInBlock(c)
    /\ sessions[calls[c].began] = "closed"

\* ... and the client holds no session: the block has exited and no other
\* block is open
Orphaned(c) == OwnBlockClosed(c) /\ session = 0

\* as stated: whatever the client holds by then, an attempt that starts
\* after the session of the call's block was closed runs on a temporary
\* session
C31_TempOnceClosed_Step ==
    \A c \in DOMAIN calls :
        (OwnBlockClosed(c) /\ AttemptStarts(c))
            => /\ calls'[c].via = "temp"
               /\ calls'[c].temp = "open"

C31_AfterClosedOnlyTemp == [][C31_TempOnceClosed_Step]_vars

\* every attempt, the first and each retry, runs on the session the client
\* holds when it starts, and on a session of its own when it holds none
C31_Step ==
    \A c \in DOMAIN calls :
        AttemptStarts(c)
            => /\ calls'[c].attempt <= MAX_ATTEMPTS
               /\ IF session = 0
                  THEN /\ calls'[c].via = "temp"
                       /\ calls'[c].temp = "open"
                  ELSE /\ calls'[c].via = "shared"
                       /\ calls'[c].sid = session

\* an orphaned call that sleeps before a retry can make that retry
C31_OrphanCanRetry ==
    \A c \in DOMAIN calls :
        (Orphaned(c) /\ calls[c].pc = "sleeping")
            => /\ calls[c].attempt < MAX_ATTEMPTS
               /\ ENABLED RetryWake(c)

\* C31: the session is chosen afresh at each attempt, by what the client
\* holds when the attempt starts: a call started inside a scoped-usage
\* block makes every retry that starts once the block has exited, no other
\* block being open, on a temporary session, and a retry that starts while
\* a later block is open on that block's session; a call left behind by
\* its block goes on retrying, each sleep of it being followed by a further
\* attempt, up to its 5 attempts.
C31_SessionChosenPerAttempt ==
    /\ [][C31_Step]_vars
    /\ []C31_OrphanCanRetry
    /\ \A c \in {0} :
          (Orphaned(c) /\ calls[c].pc = "sleeping")
              ~> (calls[c].pc = "inflight")

\* a call started in a block, on the block's session, has made its fifth
\* attempt after the block exited, on a session of its own
C31_Witness ==
    /\ scenario = "scoped"
    /\ Orphaned(0)
    /\ blocks.depth = 0
    /\ calls[0].attempt = MAX_ATTEMPTS
    /\ calls[0].via = "temp"
    /\ calls[0].pc = "failed"

(* ------------------------------- C32 ---------------------------------- *)
\* the changelog the upstream holds for ticket t, in its order
ChangelogOf(t) == [n \in 1..ChangelogTotal(t) |-> <<t, n>>]

\* C32: what changelogs_from_tickets returns has one entry per ticket
\* given, in the order given; entry t carries the key of ticket t and the
\* changelog fetched for that key, which is that ticket's changelog at the
\* upstream, in whatever order the fetches of the tickets finished.
C32_EntriesPairedInOrder ==
    (scenario = "changelogs" /\ fetch[0].pc = "returned")
        => /\ DOMAIN fetch[0].result = Tickets
           /\ \A t \in Tickets :
                 /\ fetch[0].result[t].key = t
                 /\ fetch[0].result[t].changelog = fetch[t].result
                 /\ fetch[0].result[t].changelog = ChangelogOf(t)

\* the fetch of the last ticket finished first, that of the first ticket
\* last, and changelogs_from_tickets has returned
C32_Witness ==
    /\ scenario = "changelogs"
    /\ fetch[0].pc = "returned"
    /\ Len(fetch[0].finished) = MaxTickets
    /\ fetch[0].finished[1] = MaxTickets
    /\ fetch[0].finished[MaxTickets] = 1
    /\ fetch[0].result[1].key = 1
    /\ Len(fetch[0].result[1].changelog) = ChangelogTotal(1)

(* ------------------------------- C33 ---------------------------------- *)
\* the create requests issued so far: attempt a of the post of call u
CreatesIssued ==
    {x \in BothUpserts \X (1..MAX_ATTEMPTS) :
        /\ <<x[1], "create">> \in DOMAIN calls
        /\ x[2] <= calls[<<x[1], "create">>].attempt}

\* C33: with two calls of create_or_update_page for the same space and
\* title under way at once, at most one create request (POST) is issued
\* for the title, however the two calls interleave.
C33_AtMostOneCreate ==
    scenario = "upserts" => Cardinality(CreatesIssued) <= 1

====
